---- MODULE Spec2Model ----
(***************************************************************************)
(* Model of the team-sync server handlers (server/src/handlers) over the   *)
(* relational store declared in server/src/db/schema.ts.                   *)
(*                                                                         *)
(* The store is a set of rows per table.  Every `await db...execute()` of  *)
(* a handler is one atomic store statement; a handler call is a sequence   *)
(* of such statements and calls interleave between statements.  The pure   *)
(* JavaScript between two statements (ifs, throws) belongs to the          *)
(* statement before it.                                                    *)
(***************************************************************************)
EXTENDS Integers, FiniteSets, Sequences, TLC

\* ------------------------------------------------------------------ bounds
\* when calls interleave between statements (Spec)
NumUsers == 2           \* user rows 1..NumUsers exist
MaxTeams == 1           \* values the teams id sequence hands out
MaxMemberships == 2     \* values the team_memberships id sequence hands out
\* when every call runs to completion before the next begins (SpecSeq)
NumUsersSeq == 3
MaxTeamsSeq == 2
MaxMembershipsSeq == 3
MaxTime == 2            \* readings of the wall clock (new Date())

\* A nullable column holds NULL or {v}, v its value.
NULL == {}

Procs == {"p1", "p2"}
\* the one caller of SpecSeq
SeqProc == "p1"


membershipStatusEnum == {"active", "pending", "rejected"}

VARIABLES
    users,             \* usersTable: set of user ids
    teams,             \* teamsTable: set of [id, created_by]
    memberships,       \* teamMembershipsTable: set of [id, team_id, user_id, status, joined_at]
    nextTeamId,        \* serial sequence of teams.id
    nextMembershipId,  \* serial sequence of team_memberships.id
    todoLists,         \* todoListsTable: set of [id, team_id, name, description, created_by]
    tasks,             \* tasksTable: set of task rows
    nextTaskId,        \* serial sequence of tasks.id
    shoppingLists,     \* shoppingListsTable: set of [id, team_id, name, description, created_by]
    shoppingItems,     \* shoppingItemsTable: set of shopping item rows
    nextShoppingItemId,\* serial sequence of shopping_items.id
    nextTodoListId,    \* serial sequence of todo_lists.id
    nextShoppingListId,\* serial sequence of shopping_lists.id
    calendarEvents,    \* calendarEventsTable: set of calendar event rows
    nextCalendarEventId,\* serial sequence of calendar_events.id
    features,          \* featuresTable: set of feature rows
    userRows,          \* usersTable: the columns of each row of users
    nextUserId,        \* serial sequence of users.id
    now,               \* wall clock read by new Date()
    call               \* per in-flight call: position, arguments, locals, outcome

\* the tables of the membership lifecycle
membershipTables == <<users, teams, memberships, nextTeamId, nextMembershipId>>
\* the tables of the to-do lists
taskTables == <<todoLists, tasks, nextTaskId, nextTodoListId>>
\* the tables of the shopping lists
shoppingTables == <<shoppingLists, shoppingItems, nextShoppingItemId, nextShoppingListId>>
\* the calendar
calendarTables == <<calendarEvents, nextCalendarEventId>>
\* the feature flags
featureTables == <<features>>
\* the user accounts (users holds the ids of userRows)
userTables == <<userRows, nextUserId>>

vars == <<membershipTables, taskTables, shoppingTables, calendarTables, featureTables, userTables, now, call>>

\* ids handed to the handlers: every id the table's sequence has handed out
\* (rows that exist, rows not yet committed, values lost to a failed insert)
\* and the next one, which matches no row
UserIds == users \cup {Cardinality(users) + 1}
TeamIds == 1 .. nextTeamId
MembershipIds == 1 .. nextMembershipId

store == <<membershipTables, taskTables, shoppingTables, calendarTables, featureTables, userTables>>

Idle ==
    [pc |-> "idle", op |-> "none", caller |-> 0, arg |-> 0,
     loc |-> {}, txTeams |-> {}, txMemberships |-> {}, res |-> "none", ret |-> {}]

AllIdle == \A p \in Procs : call[p].pc = "idle"

\* a finished call: the promise is settled, with the returned rows or the error
Done(c, res, ret) ==
    [c EXCEPT !.pc = "done", !.res = res, !.ret = ret,
              !.loc = {}, !.txTeams = {}, !.txMemberships = {}]

Started(p, op, caller, arg) ==
    [Idle EXCEPT !.op = op, !.caller = caller, !.arg = arg]

\* ------------------------------------------------------------ the clock
Tick ==
    /\ now < MaxTime
    /\ now' = now + 1
    /\ UNCHANGED <<store, call>>

\* ------------------------------------------------------------ createTeam
\* tx.insert(teamsTable): the row is written inside the transaction; the
\* foreign key teams.created_by -> users.id rejects an unknown creator, the
\* callback throws and the transaction rolls back.  The sequence value is
\* consumed either way.
\* (mutant) the two inserts issued on db, outside a transaction
uncommittedVisible_noTransaction(rows) == rows

\* db.transaction: of the rows a transaction has written and not yet
\* committed, the ones other calls can see (none)
uncommittedVisible(rows) == {}

ErrForeignKey == "violates foreign key constraint"
\* a statement the store did not carry out (connection or server error)
ErrStore == "store error"

createTeam_insertTeam(p, userId, maxTeams) ==
    /\ call[p].pc = "idle"
    /\ nextTeamId <= maxTeams
    /\ nextTeamId' = nextTeamId + 1
    /\ LET c == Started(p, "createTeam", userId, 0)
           team == [id |-> nextTeamId, created_by |-> userId]
       IN IF userId \in users
          THEN /\ call' = [call EXCEPT ![p] =
                     [c EXCEPT !.pc = "ct_membership", !.txTeams = {team}]]
               /\ teams' = teams \cup uncommittedVisible({team})
          ELSE /\ call' = [call EXCEPT ![p] = Done(c, ErrForeignKey, {})]
               /\ teams' = teams
    /\ UNCHANGED <<users, memberships, nextMembershipId, now, taskTables, shoppingTables, calendarTables, featureTables, userTables>>

\* (mutant) the creator is added like any requester
creatorRow_pending(id, team_id, userId, t) ==
    [id |-> id, team_id |-> team_id, user_id |-> userId,
     status |-> "pending", joined_at |-> {t}]

\* the row createTeam inserts for the creator
creatorRow(id, team_id, userId, t) ==
    [id |-> id, team_id |-> team_id, user_id |-> userId,
     status |-> "active", joined_at |-> {t}]

\* tx.insert(teamMembershipsTable) for the creator.  Its foreign keys hold
\* (the team is the transaction's own row, the user was checked by the first
\* insert), so it fails only when the store does not carry the statement out
\* (storeFails); the callback then throws and the transaction rolls back.
createTeam_insertMembership(p, storeFails, maxMemberships) ==
    /\ call[p].pc = "ct_membership"
    /\ nextMembershipId <= maxMemberships
    /\ nextMembershipId' = nextMembershipId + 1
    /\ LET c == call[p]
           team == CHOOSE t \in c.txTeams : TRUE
           row == creatorRow(nextMembershipId, team.id, c.caller, now)
       IN IF storeFails
          THEN /\ call' = [call EXCEPT ![p] = Done(c, ErrStore, {})]
               /\ teams' = teams
               /\ memberships' = memberships
          ELSE /\ call' = [call EXCEPT ![p] =
                      [c EXCEPT !.pc = "ct_commit", !.txMemberships = {row}]]
               /\ teams' = teams
               /\ memberships' = memberships \cup uncommittedVisible({row})
    /\ UNCHANGED <<users, nextTeamId, now, taskTables, shoppingTables, calendarTables, featureTables, userTables>>

\* COMMIT: the team row and the membership row become visible together
createTeam_commit(p) ==
    /\ call[p].pc = "ct_commit"
    /\ teams' = teams \cup call[p].txTeams
    /\ memberships' = memberships \cup call[p].txMemberships
    /\ call' = [call EXCEPT ![p] = Done(call[p], "ok", call[p].txTeams)]
    /\ UNCHANGED <<users, nextTeamId, nextMembershipId, now, taskTables, shoppingTables, calendarTables, featureTables, userTables>>

\* ------------------------------------------------- requestTeamMembership
ErrTeamNotFound == "Team not found"
ErrUserNotFound == "User not found"
ErrAlreadyMember == "User already has a membership request or is already a member"

requestTeamMembership_selectTeam(p, team_id, userId) ==
    /\ call[p].pc = "idle"
    /\ LET c == Started(p, "requestTeamMembership", userId, team_id) IN
       IF \E t \in teams : t.id = team_id
       THEN call' = [call EXCEPT ![p] = [c EXCEPT !.pc = "rq_user"]]
       ELSE call' = [call EXCEPT ![p] = Done(c, ErrTeamNotFound, {})]
    /\ UNCHANGED <<store, now>>

requestTeamMembership_selectUser(p) ==
    /\ call[p].pc = "rq_user"
    /\ IF call[p].caller \in users
       THEN call' = [call EXCEPT ![p].pc = "rq_existing"]
       ELSE call' = [call EXCEPT ![p] = Done(call[p], ErrUserNotFound, {})]
    /\ UNCHANGED <<store, now>>

\* (mutant) a rejected user may ask again
existingMembership_notRejected(team_id, userId) ==
    {m \in memberships :
        m.team_id = team_id /\ m.user_id = userId /\ m.status # "rejected"}

\* (mutant) the check looks for an active row only
existingMembership_activeOnly(team_id, userId) ==
    {m \in memberships :
        m.team_id = team_id /\ m.user_id = userId /\ m.status = "active"}

\* the rows the existence check of requestTeamMembership selects
existingMembership(team_id, userId) ==
    {m \in memberships : m.team_id = team_id /\ m.user_id = userId}

requestTeamMembership_selectExisting(p) ==
    /\ call[p].pc = "rq_existing"
    /\ IF existingMembership(call[p].arg, call[p].caller) # {}
       THEN call' = [call EXCEPT ![p] = Done(call[p], ErrAlreadyMember, {})]
       ELSE call' = [call EXCEPT ![p].pc = "rq_insert"]
    /\ UNCHANGED <<store, now>>

\* (mutant) the request relies on a column default and joins at once
requestRow_active(id, team_id, userId) ==
    [id |-> id, team_id |-> team_id, user_id |-> userId,
     status |-> "active", joined_at |-> NULL]

\* the row requestTeamMembership inserts
requestRow(id, team_id, userId) ==
    [id |-> id, team_id |-> team_id, user_id |-> userId,
     status |-> "pending", joined_at |-> NULL]

\* db.insert(teamMembershipsTable): both foreign keys are checked by the store
requestTeamMembership_insert(p, maxMemberships) ==
    /\ call[p].pc = "rq_insert"
    /\ nextMembershipId <= maxMemberships
    /\ nextMembershipId' = nextMembershipId + 1
    /\ LET c == call[p]
           row == requestRow(nextMembershipId, c.arg, c.caller)
       IN IF (\E t \in teams : t.id = c.arg) /\ c.caller \in users
          THEN /\ memberships' = memberships \cup {row}
               /\ call' = [call EXCEPT ![p] = Done(c, "ok", {row})]
          ELSE /\ memberships' = memberships
               /\ call' = [call EXCEPT ![p] = Done(c, ErrForeignKey, {})]
    /\ UNCHANGED <<users, teams, nextTeamId, now, taskTables, shoppingTables, calendarTables, featureTables, userTables>>

\* ------------------------------------------------- approveTeamMembership
ErrNotFound == "Membership request not found"
\* (mutant) one message for two conditions
ErrNotPending_asNotFound == "Membership request not found"
ErrNotPending == "Membership request is not pending"
ErrNotActiveMember == "Approver must be an active member of the team"

\* (mutant) the pending check is missing: a row in any status is approved
isPending_anyStatus(m) == TRUE

\* the guard on the row read by id
isPending(m) == m.status = "pending"

\* (mutant) the approver is checked before the row's status
approveTeamMembership_selectMembership_approverFirst(p, membership_id, approverId) ==
    /\ call[p].pc = "idle"
    /\ LET c == Started(p, "approveTeamMembership", approverId, membership_id)
           existing == {m \in memberships : m.id = membership_id}
       IN IF existing = {}
          THEN call' = [call EXCEPT ![p] = Done(c, ErrNotFound, {})]
          ELSE IF ~ \E a \in memberships :
                      /\ a.team_id = (CHOOSE m \in existing : TRUE).team_id
                      /\ a.user_id = approverId /\ a.status = "active"
          THEN call' = [call EXCEPT ![p] = Done(c, ErrNotActiveMember, {})]
          ELSE IF ~ isPending(CHOOSE m \in existing : TRUE)
          THEN call' = [call EXCEPT ![p] = Done(c, ErrNotPending, {})]
          ELSE call' = [call EXCEPT ![p] = [c EXCEPT !.pc = "ap_approver", !.loc = existing]]
    /\ UNCHANGED <<store, now>>

approveTeamMembership_selectMembership(p, membership_id, approverId) ==
    /\ call[p].pc = "idle"
    /\ LET c == Started(p, "approveTeamMembership", approverId, membership_id)
           existing == {m \in memberships : m.id = membership_id}
       IN IF existing = {}
          THEN call' = [call EXCEPT ![p] = Done(c, ErrNotFound, {})]
          ELSE IF ~ isPending(CHOOSE m \in existing : TRUE)
          THEN call' = [call EXCEPT ![p] = Done(c, ErrNotPending, {})]
          ELSE call' = [call EXCEPT ![p] = [c EXCEPT !.pc = "ap_approver", !.loc = existing]]
    /\ UNCHANGED <<store, now>>

\* (mutant) the approver is looked up without the team
approverMembership_anyTeam(team_id, approverId) ==
    {m \in memberships : m.user_id = approverId /\ m.status = "active"}

\* (mutant) only the team's creator may approve
approverMembership_creatorOnly(team_id, approverId) ==
    {m \in memberships :
        /\ m.team_id = team_id /\ m.user_id = approverId /\ m.status = "active"
        /\ \E t \in teams : t.id = team_id /\ t.created_by = approverId}

\* the rows the approver check selects
approverMembership(team_id, approverId) ==
    {m \in memberships :
        m.team_id = team_id /\ m.user_id = approverId /\ m.status = "active"}

approveTeamMembership_selectApprover(p) ==
    /\ call[p].pc = "ap_approver"
    /\ LET membership == CHOOSE m \in call[p].loc : TRUE IN
       IF approverMembership(membership.team_id, call[p].caller) = {}
       THEN call' = [call EXCEPT ![p] =
                Done(call[p], ErrNotActiveMember, {})]
       ELSE call' = [call EXCEPT ![p].pc = "ap_update"]
    /\ UNCHANGED <<store, now>>

\* (mutant) the update stamps the row and forgets the status
approvedRow_statusKept(m, t) == [m EXCEPT !.joined_at = {t}]

\* (mutant) the update sets the status and forgets the timestamp
approvedRow_notStamped(m, t) == [m EXCEPT !.status = "active"]

\* what the UPDATE of approveTeamMembership sets on the row
approvedRow(m, t) == [m EXCEPT !.status = "active", !.joined_at = {t}]

\* db.update(...).set({status, joined_at}).where(id = membership_id).returning()
approveTeamMembership_update(p) ==
    /\ call[p].pc = "ap_update"
    /\ LET hit == {m \in memberships : m.id = call[p].arg}
           upd == {approvedRow(m, now) : m \in hit}
       IN /\ memberships' = (memberships \ hit) \cup upd
          /\ call' = [call EXCEPT ![p] = Done(call[p], "ok", upd)]
    /\ UNCHANGED <<users, teams, nextTeamId, nextMembershipId, now, taskTables, shoppingTables, calendarTables, featureTables, userTables>>

\* ------------------------------------------------- getPendingMemberships
getPendingMemberships(teamId) ==
    {m \in memberships : m.team_id = teamId /\ m.status = "pending"}

getPendingMemberships_select(p, teamId) ==
    /\ call[p].pc = "idle"
    /\ call' = [call EXCEPT ![p] =
            Done(Started(p, "getPendingMemberships", 0, teamId), "ok",
                 getPendingMemberships(teamId))]
    /\ UNCHANGED <<store, now>>

\* ----------------------------------------------------------- getUserTeams
\* teamsTable LEFT JOIN teamMembershipsTable ON teams.id = memberships.team_id:
\* a team with every membership row of it, or once with no membership (NULL)
teamsLeftJoinMemberships ==
    {<<x[1], {x[2]}>> : x \in {y \in teams \X memberships : y[2].team_id = y[1].id}}
    \cup {<<t, NULL>> : t \in {x \in teams : ~ \E m \in memberships : m.team_id = x.id}}

\* WHERE teams.created_by = userId OR (memberships.user_id = userId AND
\* memberships.status = 'active')
getUserTeams_where(row, userId) ==
    \/ row[1].created_by = userId
    \/ \E m \in row[2] : m.user_id = userId /\ m.status = "active"

\* the rows of a select without ORDER BY come in any order
anyOrder(rows) ==
    {s \in [1 .. Cardinality(rows) -> rows] :
        \A i, j \in DOMAIN s : i # j => s[i] # s[j]}

\* (mutant) the joined rows are returned as they come
uniqueTeams_joinedRows(results) == results

\* the Map keyed by team id filled in result order, first row of an id
\* kept; Array.from(uniqueTeams.values()) lists it in insertion order
RECURSIVE uniqueTeams(_)
uniqueTeams(results) ==
    IF results = <<>> THEN <<>>
    ELSE LET seen == uniqueTeams(SubSeq(results, 1, Len(results) - 1))
             result == results[Len(results)]
         IN IF \E i \in DOMAIN seen : seen[i].id = result.id
            THEN seen
            ELSE Append(seen, result)

getUserTeams_select(p, userId) ==
    /\ call[p].pc = "idle"
    /\ LET c == Started(p, "getUserTeams", userId, 0)
           rows == {r \in teamsLeftJoinMemberships : getUserTeams_where(r, userId)}
       IN \E joined \in anyOrder(rows) :
             LET results == [i \in DOMAIN joined |-> joined[i][1]] IN
             call' = [call EXCEPT ![p] = Done(c, "ok", uniqueTeams(results))]
    /\ UNCHANGED <<store, now>>

\* the caller has consumed the settled promise
Return(p) ==
    /\ call[p].pc = "done"
    /\ call' = [call EXCEPT ![p] = Idle]
    /\ UNCHANGED <<store, now>>

\* ------------------------------------------------------------ inputs
\* A handler input is a record that has a key exactly when the caller's
\* object carries it (z.optional); a nullable key (z.nullable) carries NULL
\* or {v}.
Has(input, key) == key \in DOMAIN input

\* x !== undefined ? x : the stored value
Provided(input, key, stored) == IF Has(input, key) THEN input[key] ELSE stored

\* input.text || null : undefined, null and the empty string give null
TextOrNull(input, key) ==
    IF Has(input, key) /\ input[key] # NULL /\ input[key] # {""} THEN input[key] ELSE NULL

\* input.number || null : undefined, null and 0 give null
NumberOrNull(input, key) ==
    IF Has(input, key) /\ input[key] # NULL /\ input[key] # {0} THEN input[key] ELSE NULL

\* input.value || null for a value that is never falsy (an enum member, a Date)
ValueOrNull(input, key) == IF Has(input, key) THEN input[key] ELSE NULL

\* (mutant) the column declared without .references(() => usersTable.id)
UserRefHolds_unchecked(ref) == TRUE

\* a foreign key column referencing users.id accepts NULL and existing users
UserRefHolds(ref) == \A u \in ref : u \in users

\* -------------------------------------------------------- createTodoList
ListNames == {"n1"}
ListDescriptions == {NULL, {"d"}}

\* createTodoList / createShoppingList inputs: the team, the name, and a
\* description or none
CreateListInputs ==
    UNION {
        {[team_id |-> t, name |-> n] : n \in ListNames}
        \cup {[team_id |-> t, name |-> "n1", description |-> v] :
                 v \in ListDescriptions \cup {{""}}}
      : t \in TeamIds }

\* the row createTodoList inserts (timestamps, which no handler reads, are
\* left out of the row)
newTodoList(id, input, userId) ==
    [id |-> id,
     team_id |-> input.team_id,
     name |-> input.name,
     description |-> TextOrNull(input, "description"),
     created_by |-> userId]

\* (mutant) the team is looked up first, as createCalendarEvent does
createTodoList_insert_teamLookedUp(p, input, userId, maxLists) ==
    /\ call[p].pc = "idle"
    /\ nextTodoListId <= maxLists
    /\ LET c == Started(p, "createTodoList", userId, input)
           row == newTodoList(nextTodoListId, input, userId)
       IN IF ~ \E t \in teams : t.id = row.team_id
          THEN /\ todoLists' = todoLists
               /\ nextTodoListId' = nextTodoListId
               /\ call' = [call EXCEPT ![p] = Done(c, ErrTeamNotFound, {})]
          ELSE IF row.created_by \in users
          THEN /\ todoLists' = todoLists \cup {row}
               /\ nextTodoListId' = nextTodoListId + 1
               /\ call' = [call EXCEPT ![p] = Done(c, "ok", {row})]
          ELSE /\ todoLists' = todoLists
               /\ nextTodoListId' = nextTodoListId + 1
               /\ call' = [call EXCEPT ![p] = Done(c, ErrForeignKey, {})]
    /\ UNCHANGED <<membershipTables, tasks, nextTaskId, shoppingTables, calendarTables,
                   featureTables, userTables, now>>

\* db.insert(todoListsTable), the only statement of createTodoList: the store
\* checks team_id and created_by
createTodoList_insert(p, input, userId, maxLists) ==
    /\ call[p].pc = "idle"
    /\ nextTodoListId <= maxLists
    /\ nextTodoListId' = nextTodoListId + 1
    /\ LET c == Started(p, "createTodoList", userId, input)
           row == newTodoList(nextTodoListId, input, userId)
       IN IF (\E t \in teams : t.id = row.team_id) /\ row.created_by \in users
          THEN /\ todoLists' = todoLists \cup {row}
               /\ call' = [call EXCEPT ![p] = Done(c, "ok", {row})]
          ELSE /\ todoLists' = todoLists
               /\ call' = [call EXCEPT ![p] = Done(c, ErrForeignKey, {})]
    /\ UNCHANGED <<membershipTables, tasks, nextTaskId, shoppingTables, calendarTables,
                   featureTables, userTables, now>>

\* ---------------------------------------------------- createShoppingList
ErrTeamDoesNotExist(id) == "Team with id " \o ToString(id) \o " does not exist"
ErrNotActiveMemberOfTeam(userId, team_id) ==
    "User " \o ToString(userId) \o " is not an active member of team " \o ToString(team_id)

createShoppingList_selectTeam(p, input, userId) ==
    /\ call[p].pc = "idle"
    /\ LET c == Started(p, "createShoppingList", userId, input) IN
       IF \E t \in teams : t.id = input.team_id
       THEN call' = [call EXCEPT ![p] = [c EXCEPT !.pc = "sl_member"]]
       ELSE call' = [call EXCEPT ![p] = Done(c, ErrTeamDoesNotExist(input.team_id), {})]
    /\ UNCHANGED <<store, now>>

\* (mutant) the status condition is missing from the membership check
shoppingListMembership_anyStatus(team_id, userId) ==
    {m \in memberships : m.team_id = team_id /\ m.user_id = userId}

\* the rows the access check of createShoppingList selects
shoppingListMembership(team_id, userId) ==
    {m \in memberships :
        m.team_id = team_id /\ m.user_id = userId /\ m.status = "active"}

createShoppingList_selectMembership(p) ==
    /\ call[p].pc = "sl_member"
    /\ LET c == call[p] IN
       IF shoppingListMembership(c.arg.team_id, c.caller) = {}
       THEN call' = [call EXCEPT ![p] =
                Done(c, ErrNotActiveMemberOfTeam(c.caller, c.arg.team_id), {})]
       ELSE call' = [call EXCEPT ![p].pc = "sl_insert"]
    /\ UNCHANGED <<store, now>>

\* the row createShoppingList inserts (timestamps, which no handler reads,
\* are left out of the row)
newShoppingList(id, input, userId) ==
    [id |-> id,
     team_id |-> input.team_id,
     name |-> input.name,
     description |-> TextOrNull(input, "description"),
     created_by |-> userId]

\* db.insert(shoppingListsTable): the store checks team_id and created_by
createShoppingList_insert(p, maxLists) ==
    /\ call[p].pc = "sl_insert"
    /\ nextShoppingListId <= maxLists
    /\ nextShoppingListId' = nextShoppingListId + 1
    /\ LET c == call[p]
           row == newShoppingList(nextShoppingListId, c.arg, c.caller)
       IN IF (\E t \in teams : t.id = row.team_id) /\ row.created_by \in users
          THEN /\ shoppingLists' = shoppingLists \cup {row}
               /\ call' = [call EXCEPT ![p] = Done(c, "ok", {row})]
          ELSE /\ shoppingLists' = shoppingLists
               /\ call' = [call EXCEPT ![p] = Done(c, ErrForeignKey, {})]
    /\ UNCHANGED <<membershipTables, taskTables, shoppingItems, nextShoppingItemId,
                   calendarTables, featureTables, userTables, now>>

\* ------------------------------------------------------------ createTask
taskStatusEnum == {"todo", "in_progress", "completed"}

Titles == {"t1", "t2"}
Descriptions == {NULL, {"d"}}
Priorities == {NULL, {"P1"}}
DueDates == {NULL, {1}}
\* assigned_to: null, 0, every user and one id without a user row
AssignedTos == {NULL, {0}} \cup {{u} : u \in UserIds}
TodoListIds == {l.id : l \in todoLists} \cup {Cardinality(todoLists) + 1}
TaskIds == 1 .. nextTaskId

\* createTask inputs: the required keys and at most one optional key
CreateTaskInputs ==
    UNION {
        {[todo_list_id |-> l, title |-> t] : t \in Titles}
        \cup {[todo_list_id |-> l, title |-> "t1", description |-> v] :
                 v \in Descriptions \cup {{""}}}
        \cup {[todo_list_id |-> l, title |-> "t1", priority |-> v] : v \in Priorities}
        \cup {[todo_list_id |-> l, title |-> "t1", assigned_to |-> v] : v \in AssignedTos}
        \cup {[todo_list_id |-> l, title |-> "t1", due_date |-> v] : v \in DueDates}
      : l \in TodoListIds }

ErrTodoListNotFound(id) == "Todo list with ID " \o ToString(id) \o " not found"
ErrAssignedUserNotFound(id) == "User with ID " \o ToString(id) \o " not found"

\* if (input.assigned_to): the lookup of the assigned user is made for a
\* number other than 0
checksAssignedUser(input) == NumberOrNull(input, "assigned_to") # NULL

createTask_selectTodoList(p, input, userId) ==
    /\ call[p].pc = "idle"
    /\ LET c == Started(p, "createTask", userId, input) IN
       IF ~ \E l \in todoLists : l.id = input.todo_list_id
       THEN call' = [call EXCEPT ![p] = Done(c, ErrTodoListNotFound(input.todo_list_id), {})]
       ELSE IF checksAssignedUser(input)
       THEN call' = [call EXCEPT ![p] = [c EXCEPT !.pc = "tk_user"]]
       ELSE call' = [call EXCEPT ![p] = [c EXCEPT !.pc = "tk_insert"]]
    /\ UNCHANGED <<store, now>>

createTask_selectAssignedUser(p) ==
    /\ call[p].pc = "tk_user"
    /\ LET assigned_to == CHOOSE u \in call[p].arg.assigned_to : TRUE IN
       IF assigned_to \in users
       THEN call' = [call EXCEPT ![p].pc = "tk_insert"]
       ELSE call' = [call EXCEPT ![p] = Done(call[p], ErrAssignedUserNotFound(assigned_to), {})]
    /\ UNCHANGED <<store, now>>

\* the row createTask inserts (created_at, which no handler writes after the
\* insert, is left out of the row)
newTask(id, input, userId, t) ==
    [id |-> id,
     todo_list_id |-> input.todo_list_id,
     title |-> input.title,
     description |-> TextOrNull(input, "description"),
     priority |-> ValueOrNull(input, "priority"),
     status |-> "todo",
     assigned_to |-> NumberOrNull(input, "assigned_to"),
     due_date |-> ValueOrNull(input, "due_date"),
     completed_at |-> NULL,
     created_by |-> userId,
     updated_at |-> t]

\* db.insert(tasksTable): the store checks todo_list_id, assigned_to, created_by
createTask_insert(p, maxTasks) ==
    /\ call[p].pc = "tk_insert"
    /\ nextTaskId <= maxTasks
    /\ nextTaskId' = nextTaskId + 1
    /\ LET c == call[p]
           row == newTask(nextTaskId, c.arg, c.caller, now)
       IN IF /\ \E l \in todoLists : l.id = row.todo_list_id
             /\ UserRefHolds(row.assigned_to)
             /\ row.created_by \in users
          THEN /\ tasks' = tasks \cup {row}
               /\ call' = [call EXCEPT ![p] = Done(c, "ok", {row})]
          ELSE /\ tasks' = tasks
               /\ call' = [call EXCEPT ![p] = Done(c, ErrForeignKey, {})]
    /\ UNCHANGED <<membershipTables, todoLists, nextTodoListId, shoppingTables, calendarTables, featureTables, userTables, now>>

\* ------------------------------------------------------------ updateTask
\* updateTask inputs: the id and at most one optional key, or a status
\* together with a title
UpdateTaskInputs ==
    UNION {
        {[id |-> i]}
        \cup {[id |-> i, title |-> v] : v \in Titles}
        \cup {[id |-> i, description |-> v] : v \in Descriptions}
        \cup {[id |-> i, priority |-> v] : v \in Priorities}
        \cup {[id |-> i, status |-> v] : v \in taskStatusEnum}
        \cup {[id |-> i, assigned_to |-> v] : v \in AssignedTos}
        \cup {[id |-> i, due_date |-> v] : v \in DueDates}
        \cup {[id |-> i, status |-> v, title |-> "t2"] : v \in taskStatusEnum}
      : i \in TaskIds }

ErrTaskNotFound(id) == "Task with id " \o ToString(id) \o " not found"

\* (mutant) completed_at is stamped on completion and never cleared
completedAtFor_neverCleared(input, stored, t) ==
    IF Has(input, "status") /\ input.status = "completed" THEN {t} ELSE stored

\* completed_at as updateData carries it: set or cleared with a status,
\* untouched without one
completedAtFor(input, stored, t) ==
    IF Has(input, "status")
    THEN IF input.status = "completed" THEN {t} ELSE NULL
    ELSE stored

\* (mutant) updateData always carries due_date: an omitted key clears it
updatedTask_dueDateCleared(row, input, t) ==
    [row EXCEPT
        !.updated_at = t,
        !.title = Provided(input, "title", @),
        !.description = Provided(input, "description", @),
        !.priority = Provided(input, "priority", @),
        !.status = Provided(input, "status", @),
        !.completed_at = completedAtFor(input, @, t),
        !.assigned_to = Provided(input, "assigned_to", @),
        !.due_date = IF Has(input, "due_date") THEN input.due_date ELSE NULL]

\* the row after SET updateData
updatedTask(row, input, t) ==
    [row EXCEPT
        !.updated_at = t,
        !.title = Provided(input, "title", @),
        !.description = Provided(input, "description", @),
        !.priority = Provided(input, "priority", @),
        !.status = Provided(input, "status", @),
        !.completed_at = completedAtFor(input, @, t),
        !.assigned_to = Provided(input, "assigned_to", @),
        !.due_date = Provided(input, "due_date", @)]

\* db.update(tasksTable).set(updateData).where(id = input.id).returning():
\* one statement; the store checks assigned_to on the rows it updates
updateTask_update(p, input) ==
    /\ call[p].pc = "idle"
    /\ LET c == Started(p, "updateTask", 0, input)
           hit == {r \in tasks : r.id = input.id}
           upd == {updatedTask(r, input, now) : r \in hit}
       IN IF \E r \in upd : ~ UserRefHolds(r.assigned_to)
          THEN /\ tasks' = tasks
               /\ call' = [call EXCEPT ![p] = Done(c, ErrForeignKey, {})]
          ELSE IF upd = {}
          THEN /\ tasks' = tasks
               /\ call' = [call EXCEPT ![p] = Done(c, ErrTaskNotFound(input.id), {})]
          ELSE /\ tasks' = (tasks \ hit) \cup upd
               /\ call' = [call EXCEPT ![p] = Done(c, "ok", upd)]
    /\ UNCHANGED <<membershipTables, todoLists, nextTaskId, nextTodoListId, shoppingTables,
                 calendarTables, featureTables, userTables, now>>

\* ---------------------------------------------------- createShoppingItem
Names == {"n1", "n2"}
Quantities == {1, 2}
Comments == {NULL, {"c"}}
ShoppingListIds == {l.id : l \in shoppingLists} \cup {Cardinality(shoppingLists) + 1}
ShoppingItemIds == 1 .. nextShoppingItemId

\* createShoppingItem inputs after validation (quantity defaulted by the
\* schema), with or without a comment
CreateShoppingItemInputs ==
    UNION {
        {[shopping_list_id |-> l, name |-> n, quantity |-> q] :
            n \in Names, q \in Quantities}
        \cup {[shopping_list_id |-> l, name |-> "n1", quantity |-> 1, comment |-> v] :
                 v \in Comments \cup {{""}}}
      : l \in ShoppingListIds }

ErrShoppingListNotFound(id) == "Shopping list with id " \o ToString(id) \o " not found"

createShoppingItem_selectShoppingList(p, input, userId) ==
    /\ call[p].pc = "idle"
    /\ LET c == Started(p, "createShoppingItem", userId, input) IN
       IF \E l \in shoppingLists : l.id = input.shopping_list_id
       THEN call' = [call EXCEPT ![p] = [c EXCEPT !.pc = "si_insert"]]
       ELSE call' = [call EXCEPT ![p] =
                Done(c, ErrShoppingListNotFound(input.shopping_list_id), {})]
    /\ UNCHANGED <<store, now>>

\* the row createShoppingItem inserts: is_purchased, purchased_by and
\* purchased_at are not among the values and take the column defaults
newShoppingItem(id, input, userId, t) ==
    [id |-> id,
     shopping_list_id |-> input.shopping_list_id,
     name |-> input.name,
     quantity |-> input.quantity,
     comment |-> TextOrNull(input, "comment"),
     is_purchased |-> FALSE,
     purchased_by |-> NULL,
     purchased_at |-> NULL,
     created_by |-> userId,
     updated_at |-> t]

\* db.insert(shoppingItemsTable): the store checks shopping_list_id, created_by
createShoppingItem_insert(p, maxItems) ==
    /\ call[p].pc = "si_insert"
    /\ nextShoppingItemId <= maxItems
    /\ nextShoppingItemId' = nextShoppingItemId + 1
    /\ LET c == call[p]
           row == newShoppingItem(nextShoppingItemId, c.arg, c.caller, now)
       IN IF (\E l \in shoppingLists : l.id = row.shopping_list_id) /\ row.created_by \in users
          THEN /\ shoppingItems' = shoppingItems \cup {row}
               /\ call' = [call EXCEPT ![p] = Done(c, "ok", {row})]
          ELSE /\ shoppingItems' = shoppingItems
               /\ call' = [call EXCEPT ![p] = Done(c, ErrForeignKey, {})]
    /\ UNCHANGED <<membershipTables, taskTables, shoppingLists, nextShoppingListId,
                 calendarTables, featureTables, userTables, now>>

\* ---------------------------------------------------- updateShoppingItem
\* updateShoppingItem inputs: the id and at most one optional key, or
\* is_purchased together with a name
UpdateShoppingItemInputs ==
    UNION {
        {[id |-> i]}
        \cup {[id |-> i, name |-> v] : v \in Names}
        \cup {[id |-> i, quantity |-> v] : v \in Quantities}
        \cup {[id |-> i, comment |-> v] : v \in Comments}
        \cup {[id |-> i, is_purchased |-> v] : v \in BOOLEAN}
        \cup {[id |-> i, is_purchased |-> v, name |-> "n2"] : v \in BOOLEAN}
      : i \in ShoppingItemIds }

ErrShoppingItemNotFound(id) == "Shopping item with id " \o ToString(id) \o " not found"

\* (mutant) unmarking clears the flag and the time but keeps the purchaser
purchasedByFor_keptOnUnmark(input, stored, userId) ==
    IF Has(input, "is_purchased") /\ input.is_purchased THEN {userId} ELSE stored

\* (mutant) every update of a purchased item stamps the acting user
purchasedByFor_actingUser(input, stored, userId) ==
    IF Has(input, "is_purchased")
    THEN IF input.is_purchased THEN {userId} ELSE NULL
    ELSE IF stored # NULL THEN {userId} ELSE stored

\* purchased_by as updateData carries it
purchasedByFor(input, stored, userId) ==
    IF Has(input, "is_purchased")
    THEN IF input.is_purchased THEN {userId} ELSE NULL
    ELSE stored

\* purchased_at as updateData carries it
purchasedAtFor(input, stored, t) ==
    IF Has(input, "is_purchased")
    THEN IF input.is_purchased THEN {t} ELSE NULL
    ELSE stored

\* the row after SET updateData
updatedShoppingItem(row, input, userId, t) ==
    [row EXCEPT
        !.updated_at = t,
        !.name = Provided(input, "name", @),
        !.quantity = Provided(input, "quantity", @),
        !.comment = Provided(input, "comment", @),
        !.is_purchased = Provided(input, "is_purchased", @),
        !.purchased_by = purchasedByFor(input, @, userId),
        !.purchased_at = purchasedAtFor(input, @, t)]

\* db.update(shoppingItemsTable).set(updateData).where(id = input.id)
\* .returning(): one statement; the store checks purchased_by on the rows it
\* updates
updateShoppingItem_update(p, input, userId) ==
    /\ call[p].pc = "idle"
    /\ LET c == Started(p, "updateShoppingItem", userId, input)
           hit == {r \in shoppingItems : r.id = input.id}
           upd == {updatedShoppingItem(r, input, userId, now) : r \in hit}
       IN IF \E r \in upd : ~ UserRefHolds(r.purchased_by)
          THEN /\ shoppingItems' = shoppingItems
               /\ call' = [call EXCEPT ![p] = Done(c, ErrForeignKey, {})]
          ELSE IF upd = {}
          THEN /\ shoppingItems' = shoppingItems
               /\ call' = [call EXCEPT ![p] = Done(c, ErrShoppingItemNotFound(input.id), {})]
          ELSE /\ shoppingItems' = (shoppingItems \ hit) \cup upd
               /\ call' = [call EXCEPT ![p] = Done(c, "ok", upd)]
    /\ UNCHANGED <<membershipTables, taskTables, shoppingLists, nextShoppingItemId,
                 nextShoppingListId, calendarTables, featureTables, userTables, now>>

\* --------------------------------------------------- createCalendarEvent
MaxDate == 2            \* the dates events and filters are drawn from

EventTitles == {"e1", "e2"}
EventDescriptions == {NULL, {"d"}}
Locations == {NULL, {"l"}}
Dates == 1 .. MaxDate
CalendarEventIds == 1 .. nextCalendarEventId

\* createCalendarEvent inputs after validation (is_all_day defaulted by the
\* schema): every start and end time, and at most one more key off its base
\* value
CreateCalendarEventInputs ==
    UNION {
        {[team_id |-> t, title |-> "e1", start_time |-> s, end_time |-> e,
          is_all_day |-> FALSE] : s \in Dates, e \in Dates}
        \cup {[team_id |-> t, title |-> "e2", start_time |-> 1, end_time |-> 1,
               is_all_day |-> TRUE]}
        \cup {[team_id |-> t, title |-> "e1", start_time |-> 1, end_time |-> 1,
               is_all_day |-> FALSE, description |-> v] :
                 v \in EventDescriptions \cup {{""}}}
        \cup {[team_id |-> t, title |-> "e1", start_time |-> 1, end_time |-> 1,
               is_all_day |-> FALSE, location |-> v] : v \in Locations \cup {{""}}}
      : t \in TeamIds }

ErrTeamIdNotFound(id) == "Team with id " \o ToString(id) \o " not found"

createCalendarEvent_selectTeam(p, input, userId) ==
    /\ call[p].pc = "idle"
    /\ LET c == Started(p, "createCalendarEvent", userId, input) IN
       IF \E t \in teams : t.id = input.team_id
       THEN call' = [call EXCEPT ![p] = [c EXCEPT !.pc = "ce_insert"]]
       ELSE call' = [call EXCEPT ![p] = Done(c, ErrTeamIdNotFound(input.team_id), {})]
    /\ UNCHANGED <<store, now>>

\* the row createCalendarEvent inserts (created_at, which no handler writes
\* after the insert, is left out of the row)
newCalendarEvent(id, input, userId, t) ==
    [id |-> id,
     team_id |-> input.team_id,
     title |-> input.title,
     description |-> TextOrNull(input, "description"),
     start_time |-> input.start_time,
     end_time |-> input.end_time,
     is_all_day |-> input.is_all_day,
     location |-> TextOrNull(input, "location"),
     created_by |-> userId,
     updated_at |-> t]

\* db.insert(calendarEventsTable): the store checks team_id and created_by
createCalendarEvent_insert(p, maxEvents) ==
    /\ call[p].pc = "ce_insert"
    /\ nextCalendarEventId <= maxEvents
    /\ nextCalendarEventId' = nextCalendarEventId + 1
    /\ LET c == call[p]
           row == newCalendarEvent(nextCalendarEventId, c.arg, c.caller, now)
       IN IF (\E t \in teams : t.id = row.team_id) /\ row.created_by \in users
          THEN /\ calendarEvents' = calendarEvents \cup {row}
               /\ call' = [call EXCEPT ![p] = Done(c, "ok", {row})]
          ELSE /\ calendarEvents' = calendarEvents
               /\ call' = [call EXCEPT ![p] = Done(c, ErrForeignKey, {})]
    /\ UNCHANGED <<membershipTables, taskTables, shoppingTables, featureTables, userTables, now>>

\* --------------------------------------------------- updateCalendarEvent
\* updateCalendarEvent inputs: the id and at most one optional key
UpdateCalendarEventInputs ==
    UNION {
        {[id |-> i]}
        \cup {[id |-> i, title |-> v] : v \in EventTitles}
        \cup {[id |-> i, description |-> v] : v \in EventDescriptions}
        \cup {[id |-> i, start_time |-> v] : v \in Dates}
        \cup {[id |-> i, end_time |-> v] : v \in Dates}
        \cup {[id |-> i, is_all_day |-> v] : v \in BOOLEAN}
        \cup {[id |-> i, location |-> v] : v \in Locations}
      : i \in CalendarEventIds }

ErrCalendarEventNotFound(id) == "Calendar event with id " \o ToString(id) \o " not found"

\* (mutant) if (input.location) instead of !== undefined: an explicit null
\* is taken for an omitted key
updatedCalendarEvent_nullLocationKept(row, input, t) ==
    [row EXCEPT
        !.updated_at = t,
        !.title = Provided(input, "title", @),
        !.description = Provided(input, "description", @),
        !.start_time = Provided(input, "start_time", @),
        !.end_time = Provided(input, "end_time", @),
        !.is_all_day = Provided(input, "is_all_day", @),
        !.location = IF Has(input, "location") /\ input.location # NULL
                     THEN input.location ELSE @]

\* the row after SET updateData
updatedCalendarEvent(row, input, t) ==
    [row EXCEPT
        !.updated_at = t,
        !.title = Provided(input, "title", @),
        !.description = Provided(input, "description", @),
        !.start_time = Provided(input, "start_time", @),
        !.end_time = Provided(input, "end_time", @),
        !.is_all_day = Provided(input, "is_all_day", @),
        !.location = Provided(input, "location", @)]

\* (mutant) the result.length === 0 check is missing: an update that matches
\* no row returns normally
updateCalendarEvent_update_unchecked(p, input) ==
    /\ call[p].pc = "idle"
    /\ LET c == Started(p, "updateCalendarEvent", 0, input)
           hit == {r \in calendarEvents : r.id = input.id}
           upd == {updatedCalendarEvent(r, input, now) : r \in hit}
       IN /\ calendarEvents' = (calendarEvents \ hit) \cup upd
          /\ call' = [call EXCEPT ![p] = Done(c, "ok", upd)]
    /\ UNCHANGED <<membershipTables, taskTables, shoppingTables, nextCalendarEventId,
                   featureTables, userTables, now>>

\* db.update(calendarEventsTable).set(updateData).where(id = input.id)
\* .returning(): one statement
updateCalendarEvent_update(p, input) ==
    /\ call[p].pc = "idle"
    /\ LET c == Started(p, "updateCalendarEvent", 0, input)
           hit == {r \in calendarEvents : r.id = input.id}
           upd == {updatedCalendarEvent(r, input, now) : r \in hit}
       IN IF upd = {}
          THEN /\ calendarEvents' = calendarEvents
               /\ call' = [call EXCEPT ![p] =
                        Done(c, ErrCalendarEventNotFound(input.id), {})]
          ELSE /\ calendarEvents' = (calendarEvents \ hit) \cup upd
               /\ call' = [call EXCEPT ![p] = Done(c, "ok", upd)]
    /\ UNCHANGED <<membershipTables, taskTables, shoppingTables, nextCalendarEventId,
                   featureTables, userTables, now>>

\* ------------------------------------------------- getTeamCalendarEvents
\* getTeamCalendarEvents inputs: the team and each filter given or not
GetTeamCalendarEventsInputs ==
    UNION {
        {[team_id |-> t]}
        \cup {[team_id |-> t, start_date |-> d] : d \in Dates}
        \cup {[team_id |-> t, end_date |-> d] : d \in Dates}
        \cup {[team_id |-> t, start_date |-> d, end_date |-> e] : d \in Dates, e \in Dates}
      : t \in TeamIds }

\* (mutant) lt instead of lte: the end of the range is exclusive
calendarConditions_exclusiveEnd(input, e) ==
    /\ e.team_id = input.team_id
    /\ Has(input, "start_date") => e.start_time >= input.start_date
    /\ Has(input, "end_date") => e.end_time < input.end_date

\* and(...conditions): a Date is never falsy, a filter given is a filter applied
calendarConditions(input, e) ==
    /\ e.team_id = input.team_id
    /\ Has(input, "start_date") => e.start_time >= input.start_date
    /\ Has(input, "end_date") => e.end_time <= input.end_date

\* orderBy(desc(start_time)): every listing of the rows in which start_time
\* never increases; rows of equal start_time come in any order
orderByStartTimeDesc(rows) ==
    {s \in [1 .. Cardinality(rows) -> rows] :
        /\ \A i, j \in DOMAIN s : i # j => s[i] # s[j]
        /\ \A i, j \in DOMAIN s : i < j => s[i].start_time >= s[j].start_time}

getTeamCalendarEvents_select(p, input) ==
    /\ call[p].pc = "idle"
    /\ LET c == Started(p, "getTeamCalendarEvents", 0, input)
           rows == {e \in calendarEvents : calendarConditions(input, e)}
       IN \E results \in orderByStartTimeDesc(rows) :
             call' = [call EXCEPT ![p] = Done(c, "ok", results)]
    /\ UNCHANGED <<store, now>>

\* ---------------------------------------------------------- updateFeature
FeatureIds == {f.id : f \in features} \cup {Cardinality(features) + 1}

\* updateFeature inputs: the id and each flag given or not
UpdateFeatureInputs ==
    UNION {
        {[id |-> i]}
        \cup {[id |-> i, is_enabled_free |-> v] : v \in BOOLEAN}
        \cup {[id |-> i, is_enabled_paid |-> v] : v \in BOOLEAN}
        \cup {[id |-> i, is_enabled_free |-> v, is_enabled_paid |-> w] :
                 v \in BOOLEAN, w \in BOOLEAN}
      : i \in FeatureIds }

ErrFeatureNotFound(id) == "Feature with id " \o ToString(id) \o " not found"

\* db.select().from(featuresTable).where(id = input.id), the not-found throw
\* and updateData = {updated_at: new Date()}: the time is read here
updateFeature_selectExisting(p, input) ==
    /\ call[p].pc = "idle"
    /\ LET c == Started(p, "updateFeature", 0, input) IN
       IF \E f \in features : f.id = input.id
       THEN call' = [call EXCEPT ![p] = [c EXCEPT !.pc = "uf_update", !.loc = {now}]]
       ELSE call' = [call EXCEPT ![p] = Done(c, ErrFeatureNotFound(input.id), {})]
    /\ UNCHANGED <<store, now>>

\* the row after SET updateData
updatedFeature(row, input, t) ==
    [row EXCEPT
        !.updated_at = t,
        !.is_enabled_free = Provided(input, "is_enabled_free", @),
        !.is_enabled_paid = Provided(input, "is_enabled_paid", @)]

\* db.update(featuresTable).set(updateData).where(id = input.id).returning()
updateFeature_update(p) ==
    /\ call[p].pc = "uf_update"
    /\ LET c == call[p]
           t == CHOOSE x \in c.loc : TRUE
           hit == {r \in features : r.id = c.arg.id}
           upd == {updatedFeature(r, c.arg, t) : r \in hit}
       IN /\ features' = (features \ hit) \cup upd
          /\ call' = [call EXCEPT ![p] = Done(c, "ok", upd)]
    /\ UNCHANGED <<membershipTables, taskTables, shoppingTables, calendarTables, userTables, now>>

\* ------------------------------------------------------------- createUser
MaxUsers == 2           \* values the users id sequence hands out (SpecUsers)

userTierEnum == {"free", "paid"}
userStatusEnum == {"active", "inactive", "suspended"}

\* well-formed addresses, as the tests pass them
Emails == {"user1@example.com", "user2@example.com", "test@example.com"}

\* createUser inputs: tier and status given or left out
CreateUserInputs ==
    UNION {
        {[email |-> e, name |-> "n1"]}
        \cup {[email |-> e, name |-> "n1", tier |-> t] : t \in userTierEnum}
        \cup {[email |-> e, name |-> "n1", status |-> st] : st \in userStatusEnum}
        \cup {[email |-> e, name |-> "n1", tier |-> t, status |-> st] :
                 t \in userTierEnum, st \in userStatusEnum}
        : e \in Emails}

\* (mutant) a schema whose default tier is the paid one
createUserInputSchema_defaultPaid(input) ==
    [email |-> input.email, name |-> input.name,
     tier |-> IF Has(input, "tier") THEN input.tier ELSE "paid",
     status |-> IF Has(input, "status") THEN input.status ELSE "active"]

\* createUserInputSchema.parse: the declared defaults fill what is left out
createUserInputSchema(input) ==
    [email |-> input.email, name |-> input.name,
     tier |-> IF Has(input, "tier") THEN input.tier ELSE "free",
     status |-> IF Has(input, "status") THEN input.status ELSE "active"]

\* (mutant) the email column declared without .unique()
emailTaken_notUnique(email) == FALSE

\* users.email is unique: a row holding the address exists
emailTaken(email) == \E r \in userRows : r.email = email

ErrUniqueEmail == "duplicate key value violates unique constraint"

\* the row the insert writes: id from the sequence, both timestamps from
\* the one defaultNow() of the statement
newUser(id, parsed, t) ==
    [id |-> id, email |-> parsed.email, name |-> parsed.name,
     tier |-> parsed.tier, status |-> parsed.status,
     created_at |-> t, updated_at |-> t]

\* db.insert(usersTable).values(input).returning(): one statement.  The
\* sequence value is consumed whether or not the unique index accepts the row.
createUser_insert(p, input, maxUsers) ==
    /\ call[p].pc = "idle"
    /\ nextUserId <= maxUsers
    /\ nextUserId' = nextUserId + 1
    /\ LET c == Started(p, "createUser", 0, input)
           row == newUser(nextUserId, createUserInputSchema(input), now)
       IN IF emailTaken(row.email)
          THEN /\ call' = [call EXCEPT ![p] = Done(c, ErrUniqueEmail, {})]
               /\ UNCHANGED <<users, userRows>>
          ELSE /\ call' = [call EXCEPT ![p] = Done(c, "ok", {row})]
               /\ users' = users \cup {row.id}
               /\ userRows' = userRows \cup {row}
    /\ UNCHANGED <<teams, memberships, nextTeamId, nextMembershipId, taskTables,
                   shoppingTables, calendarTables, featureTables, now>>

\* the user rows the handlers' tests insert before the call under test
seedUser(i) ==
    [id |-> i, email |-> "user" \o ToString(i) \o "@example.com",
     name |-> "n1", tier |-> "free", status |-> "active",
     created_at |-> 1, updated_at |-> 1]

SeedUsers(n) ==
    /\ users = 1 .. n
    /\ userRows = {seedUser(i) : i \in 1 .. n}
    /\ nextUserId = n + 1

\* ------------------------------------------------------- specifications
\* the first statement of a call; maxTeams bounds the teams id sequence
FirstStatement(p, maxTeams) ==
    \/ \E u \in UserIds : createTeam_insertTeam(p, u, maxTeams)
    \/ \E t \in TeamIds, u \in UserIds : requestTeamMembership_selectTeam(p, t, u)
    \/ \E m \in MembershipIds, u \in UserIds : approveTeamMembership_selectMembership(p, m, u)
    \/ \E t \in TeamIds : getPendingMemberships_select(p, t)

\* a later statement of a call in flight; maxMemberships bounds the
\* team_memberships id sequence
LaterStatement(p, maxMemberships) ==
    \/ \E f \in BOOLEAN : createTeam_insertMembership(p, f, maxMemberships)
    \/ createTeam_commit(p)
    \/ requestTeamMembership_selectUser(p)
    \/ requestTeamMembership_selectExisting(p)
    \/ requestTeamMembership_insert(p, maxMemberships)
    \/ approveTeamMembership_selectApprover(p)
    \/ approveTeamMembership_update(p)
    \/ Return(p)

\* no to-do list and no shopping list has been created
NoLists ==
    /\ todoLists = {} /\ tasks = {} /\ nextTaskId = 1 /\ nextTodoListId = 1
    /\ shoppingLists = {} /\ shoppingItems = {} /\ nextShoppingItemId = 1
    /\ nextShoppingListId = 1
    /\ calendarEvents = {} /\ nextCalendarEventId = 1
    /\ features = {}

\* Spec: the store holds the users and nothing else; calls interleave between
\* their store statements.  No handler reads a stored timestamp, and the
\* clock stands still here.
Init ==
    /\ SeedUsers(NumUsers)
    /\ teams = {}
    /\ memberships = {}
    /\ nextTeamId = 1
    /\ nextMembershipId = 1
    /\ NoLists
    /\ now = 1
    /\ call = [p \in Procs |-> Idle]

Next ==
    \/ \E p \in Procs : FirstStatement(p, MaxTeams)
    \/ \E p \in Procs : LaterStatement(p, MaxMemberships)

Spec == Init /\ [][Next]_vars

\* SpecSeq: every call runs to completion before the next one begins (one
\* caller awaiting each call); the clock stands still as in Spec.  The
\* store starts empty, or as the handlers' tests seed it: a team of user 1
\* with the creator's active row and one more row of user 2 in any status.
seedRow(status) ==
    [id |-> 2, team_id |-> 1, user_id |-> 2, status |-> status,
     joined_at |-> IF status = "active" THEN {1} ELSE NULL]

InitSeq ==
    /\ SeedUsers(NumUsersSeq)
    /\ NoLists
    /\ now = 1
    /\ call = [p \in Procs |-> Idle]
    /\ \/ /\ teams = {}
          /\ memberships = {}
          /\ nextTeamId = 1
          /\ nextMembershipId = 1
       \/ \E status \in membershipStatusEnum :
             /\ teams = {[id |-> 1, created_by |-> 1]}
             /\ memberships =
                   {[id |-> 1, team_id |-> 1, user_id |-> 1,
                     status |-> "active", joined_at |-> {1}],
                    seedRow(status)}
             /\ nextTeamId = 2
             /\ nextMembershipId = 3

NextSeq ==
    \/ AllIdle /\ FirstStatement(SeqProc, MaxTeamsSeq)
    \/ LaterStatement(SeqProc, MaxMembershipsSeq)
    \/ \E u \in UserIds : getUserTeams_select(SeqProc, u)

SpecSeq == InitSeq /\ [][NextSeq]_vars

\* SpecTask: a user, the user's team and one to-do list of it exist; one
\* caller awaits each createTask / updateTask call before the next, and the
\* clock advances between statements.
NumUsersTask == 1
MaxTasks == 1

InitTask ==
    /\ SeedUsers(NumUsersTask)
    /\ teams = {[id |-> 1, created_by |-> 1]}
    /\ memberships = {creatorRow(1, 1, 1, 1)}
    /\ nextTeamId = 2
    /\ nextMembershipId = 2
    /\ todoLists = {newTodoList(1, [team_id |-> 1, name |-> "n1"], 1)}
    /\ nextTodoListId = 2
    /\ tasks = {}
    /\ nextTaskId = 1
    /\ shoppingLists = {} /\ shoppingItems = {} /\ nextShoppingItemId = 1
    /\ nextShoppingListId = 1
    /\ calendarEvents = {} /\ nextCalendarEventId = 1
    /\ features = {}
    /\ now = 1
    /\ call = [p \in Procs |-> Idle]

NextTask ==
    \/ Tick
    \/ \E input \in CreateTaskInputs, u \in UserIds :
          createTask_selectTodoList(SeqProc, input, u)
    \/ createTask_selectAssignedUser(SeqProc)
    \/ createTask_insert(SeqProc, MaxTasks)
    \/ \E input \in UpdateTaskInputs : updateTask_update(SeqProc, input)
    \/ Return(SeqProc)

SpecTask == InitTask /\ [][NextTask]_vars

\* SpecShop: two users, a team of user 1 and one shopping list of it exist;
\* one caller awaits each createShoppingItem / updateShoppingItem call before
\* the next, and the clock advances between statements.
NumUsersShop == 2
MaxShoppingItems == 1

InitShop ==
    /\ SeedUsers(NumUsersShop)
    /\ teams = {[id |-> 1, created_by |-> 1]}
    /\ memberships = {creatorRow(1, 1, 1, 1)}
    /\ nextTeamId = 2
    /\ nextMembershipId = 2
    /\ todoLists = {} /\ tasks = {} /\ nextTaskId = 1 /\ nextTodoListId = 1
    /\ shoppingLists = {newShoppingList(1, [team_id |-> 1, name |-> "n1"], 1)}
    /\ nextShoppingListId = 2
    /\ shoppingItems = {}
    /\ nextShoppingItemId = 1
    /\ calendarEvents = {} /\ nextCalendarEventId = 1
    /\ features = {}
    /\ now = 1
    /\ call = [p \in Procs |-> Idle]

NextShop ==
    \/ Tick
    \/ \E input \in CreateShoppingItemInputs, u \in UserIds :
          createShoppingItem_selectShoppingList(SeqProc, input, u)
    \/ createShoppingItem_insert(SeqProc, MaxShoppingItems)
    \/ \E input \in UpdateShoppingItemInputs, u \in UserIds :
          updateShoppingItem_update(SeqProc, input, u)
    \/ Return(SeqProc)

SpecShop == InitShop /\ [][NextShop]_vars

\* SpecUpdate: a user, the user's team, a to-do list and a shopping list of
\* it exist, and one table holds rows for the update handlers to change: a
\* task, a shopping item or a calendar event as its create handler inserts
\* it, or two feature rows with the column defaults.  One caller awaits each
\* call before the next, and the clock advances between statements.
NumUsersUpdate == 1

featureRow(id, name) ==
    [id |-> id, name |-> name, description |-> NULL,
     is_enabled_free |-> TRUE, is_enabled_paid |-> TRUE, updated_at |-> 1]

InitUpdate ==
    /\ SeedUsers(NumUsersUpdate)
    /\ teams = {[id |-> 1, created_by |-> 1]}
    /\ memberships = {creatorRow(1, 1, 1, 1)}
    /\ nextTeamId = 2
    /\ nextMembershipId = 2
    /\ todoLists = {newTodoList(1, [team_id |-> 1, name |-> "n1"], 1)}
    /\ nextTodoListId = 2
    /\ shoppingLists = {newShoppingList(1, [team_id |-> 1, name |-> "n1"], 1)}
    /\ nextShoppingListId = 2
    /\ now = 1
    /\ call = [p \in Procs |-> Idle]
    /\ \/ /\ tasks = {newTask(1, [todo_list_id |-> 1, title |-> "t1"], 1, 1)}
          /\ nextTaskId = 2
          /\ shoppingItems = {} /\ nextShoppingItemId = 1
          /\ calendarEvents = {} /\ nextCalendarEventId = 1
          /\ features = {}
       \/ /\ tasks = {} /\ nextTaskId = 1
          /\ shoppingItems =
                {newShoppingItem(1, [shopping_list_id |-> 1, name |-> "n1",
                                     quantity |-> 1], 1, 1)}
          /\ nextShoppingItemId = 2
          /\ calendarEvents = {} /\ nextCalendarEventId = 1
          /\ features = {}
       \/ /\ tasks = {} /\ nextTaskId = 1
          /\ shoppingItems = {} /\ nextShoppingItemId = 1
          /\ calendarEvents =
                {newCalendarEvent(1, [team_id |-> 1, title |-> "e1", start_time |-> 1,
                                      end_time |-> 1, is_all_day |-> FALSE], 1, 1)}
          /\ nextCalendarEventId = 2
          /\ features = {}
       \/ /\ tasks = {} /\ nextTaskId = 1
          /\ shoppingItems = {} /\ nextShoppingItemId = 1
          /\ calendarEvents = {} /\ nextCalendarEventId = 1
          /\ features = {featureRow(1, "f1"), featureRow(2, "f2")}

NextUpdate ==
    \/ Tick
    \/ \E input \in UpdateTaskInputs : updateTask_update(SeqProc, input)
    \/ \E input \in UpdateShoppingItemInputs, u \in UserIds :
          updateShoppingItem_update(SeqProc, input, u)
    \/ \E input \in UpdateCalendarEventInputs : updateCalendarEvent_update(SeqProc, input)
    \/ \E input \in UpdateFeatureInputs : updateFeature_selectExisting(SeqProc, input)
    \/ updateFeature_update(SeqProc)
    \/ Return(SeqProc)

SpecUpdate == InitUpdate /\ [][NextUpdate]_vars

\* SpecCal: a user and two teams of the user exist, without events; one
\* caller awaits each createCalendarEvent / getTeamCalendarEvents call before
\* the next.  No handler here reads the clock into a column the listing
\* looks at, and the clock stands still.
NumUsersCal == 1
MaxCalendarEvents == 3

InitCal ==
    /\ SeedUsers(NumUsersCal)
    /\ teams = {[id |-> 1, created_by |-> 1], [id |-> 2, created_by |-> 1]}
    /\ memberships = {creatorRow(1, 1, 1, 1), creatorRow(2, 2, 1, 1)}
    /\ nextTeamId = 3
    /\ nextMembershipId = 3
    /\ NoLists
    /\ now = 1
    /\ call = [p \in Procs |-> Idle]

NextCal ==
    \/ \E input \in CreateCalendarEventInputs, u \in UserIds :
          createCalendarEvent_selectTeam(SeqProc, input, u)
    \/ createCalendarEvent_insert(SeqProc, MaxCalendarEvents)
    \/ \E input \in GetTeamCalendarEventsInputs :
          getTeamCalendarEvents_select(SeqProc, input)
    \/ Return(SeqProc)

SpecCal == InitCal /\ [][NextCal]_vars

\* SpecLists: three users and team 1 of user 1 exist, with the creator's
\* active row and a row of user 2 in any status; user 3 holds no row.  One
\* caller awaits each createShoppingList / createTodoList /
\* createCalendarEvent call before the next; the clock stands still.
NumUsersLists == 3
MaxListsPerKind == 1

InitLists ==
    /\ SeedUsers(NumUsersLists)
    /\ NoLists
    /\ now = 1
    /\ call = [p \in Procs |-> Idle]
    /\ \E status \in membershipStatusEnum :
          /\ teams = {[id |-> 1, created_by |-> 1]}
          /\ memberships = {creatorRow(1, 1, 1, 1), seedRow(status)}
          /\ nextTeamId = 2
          /\ nextMembershipId = 3

NextLists ==
    \/ \E input \in CreateListInputs, u \in UserIds :
          createShoppingList_selectTeam(SeqProc, input, u)
    \/ createShoppingList_selectMembership(SeqProc)
    \/ createShoppingList_insert(SeqProc, MaxListsPerKind)
    \/ \E input \in CreateListInputs, u \in UserIds :
          createTodoList_insert(SeqProc, input, u, MaxListsPerKind)
    \/ \E input \in CreateCalendarEventInputs, u \in UserIds :
          createCalendarEvent_selectTeam(SeqProc, input, u)
    \/ createCalendarEvent_insert(SeqProc, MaxListsPerKind)
    \/ Return(SeqProc)

SpecLists == InitLists /\ [][NextLists]_vars

\* SpecUsers: the store is empty; createUser calls arrive from two callers
\* (the handler is one statement, so calls do not interleave inside it) and
\* the clock advances between them.
InitUsers ==
    /\ SeedUsers(0)
    /\ teams = {}
    /\ memberships = {}
    /\ nextTeamId = 1
    /\ nextMembershipId = 1
    /\ NoLists
    /\ now = 1
    /\ call = [p \in Procs |-> Idle]

NextUsers ==
    \/ Tick
    \/ \E p \in Procs, input \in CreateUserInputs : createUser_insert(p, input, MaxUsers)
    \/ \E p \in Procs : Return(p)

SpecUsers == InitUsers /\ [][NextUsers]_vars

\* SpecRace: two users and team 1 of user 1 with the creator's active row
\* exist; requestTeamMembership and approveTeamMembership calls of two
\* callers interleave between their store statements, and the clock advances.
NumUsersRace == 2
MaxMembershipsRace == 3

InitRace ==
    /\ SeedUsers(NumUsersRace)
    /\ teams = {[id |-> 1, created_by |-> 1]}
    /\ memberships = {creatorRow(1, 1, 1, 1)}
    /\ nextTeamId = 2
    /\ nextMembershipId = 2
    /\ NoLists
    /\ now = 1
    /\ call = [p \in Procs |-> Idle]

NextRace ==
    \/ Tick
    \/ \E p \in Procs, t \in TeamIds, u \in UserIds :
          requestTeamMembership_selectTeam(p, t, u)
    \/ \E p \in Procs : requestTeamMembership_selectUser(p)
    \/ \E p \in Procs : requestTeamMembership_selectExisting(p)
    \/ \E p \in Procs : requestTeamMembership_insert(p, MaxMembershipsRace)
    \/ \E p \in Procs, m \in MembershipIds, u \in UserIds :
          approveTeamMembership_selectMembership(p, m, u)
    \/ \E p \in Procs : approveTeamMembership_selectApprover(p)
    \/ \E p \in Procs : approveTeamMembership_update(p)
    \/ \E p \in Procs : Return(p)

SpecRace == InitRace /\ [][NextRace]_vars

\* SpecRouter: the membership procedures of appRouter, each passing the
\* constant user id, called by two clients whose calls interleave between
\* store statements.  The store holds three users and either nothing else,
\* or what the approveTeamMembership tests insert directly: team 1 of user 2,
\* a pending row of user 3 and possibly an active row of user 1.  (No other
\* procedure of the router writes teams or team_memberships.)
NumUsersRouter == 3
MaxTeamsRouter == 2
MaxMembershipsRouter == 3

\* const userId = 1; // Placeholder
routerUserId == 1

InitRouter ==
    /\ SeedUsers(NumUsersRouter)
    /\ NoLists
    /\ now = 1
    /\ call = [p \in Procs |-> Idle]
    /\ \/ /\ teams = {}
          /\ memberships = {}
          /\ nextTeamId = 1
          /\ nextMembershipId = 1
       \/ \E approver \in SUBSET {creatorRow(2, 1, routerUserId, 1)} :
             /\ teams = {[id |-> 1, created_by |-> 2]}
             /\ memberships = {requestRow(1, 1, 3)} \cup approver
             /\ nextTeamId = 2
             /\ nextMembershipId = 3

NextRouter ==
    \/ \E p \in Procs : createTeam_insertTeam(p, routerUserId, MaxTeamsRouter)
    \/ \E p \in Procs, f \in BOOLEAN : createTeam_insertMembership(p, f, MaxMembershipsRouter)
    \/ \E p \in Procs : createTeam_commit(p)
    \/ \E p \in Procs : getUserTeams_select(p, routerUserId)
    \/ \E p \in Procs, t \in TeamIds : requestTeamMembership_selectTeam(p, t, routerUserId)
    \/ \E p \in Procs : requestTeamMembership_selectUser(p)
    \/ \E p \in Procs : requestTeamMembership_selectExisting(p)
    \/ \E p \in Procs : requestTeamMembership_insert(p, MaxMembershipsRouter)
    \/ \E p \in Procs, m \in MembershipIds :
          approveTeamMembership_selectMembership(p, m, routerUserId)
    \/ \E p \in Procs : approveTeamMembership_selectApprover(p)
    \/ \E p \in Procs : approveTeamMembership_update(p)
    \/ \E p \in Procs, t \in TeamIds : getPendingMemberships_select(p, t)
    \/ \E p \in Procs : Return(p)

SpecRouter == InitRouter /\ [][NextRouter]_vars

\* SpecIntegrity: two users, team 1 of user 1 with the creator's row, and a
\* to-do list and a shopping list of team 1 exist.  Two callers create
\* teams, memberships, lists, tasks, items and events and rewrite tasks and
\* items; their calls interleave between store statements, and a run issues
\* at most MaxInsertsInt INSERT statements.  The inputs are the ones that
\* differ in a referencing column.  The clock stands still.
NumUsersInt == 1
MaxInsertsInt == 2

InitIntegrity ==
    /\ SeedUsers(NumUsersInt)
    /\ teams = {[id |-> 1, created_by |-> 1]}
    /\ memberships = {creatorRow(1, 1, 1, 1)}
    /\ nextTeamId = 2
    /\ nextMembershipId = 2
    /\ todoLists = {newTodoList(1, [team_id |-> 1, name |-> "n1"], 1)}
    /\ nextTodoListId = 2
    /\ shoppingLists = {newShoppingList(1, [team_id |-> 1, name |-> "n1"], 1)}
    /\ nextShoppingListId = 2
    /\ tasks = {} /\ nextTaskId = 1
    /\ shoppingItems = {} /\ nextShoppingItemId = 1
    /\ calendarEvents = {} /\ nextCalendarEventId = 1
    /\ features = {}
    /\ now = 1
    /\ call = [p \in Procs |-> Idle]

\* the INSERT statements issued since InitIntegrity: each draws one value of
\* its table's id sequence
insertsIssued ==
    (nextTeamId - 2) + (nextMembershipId - 2) + (nextTodoListId - 2)
    + (nextShoppingListId - 2) + (nextTaskId - 1) + (nextShoppingItemId - 1)
    + (nextCalendarEventId - 1)

\* the INSERT statement of a call
IntegrityInsert(p) ==
    \/ \E u \in UserIds : createTeam_insertTeam(p, u, nextTeamId)
    \/ \E f \in BOOLEAN : createTeam_insertMembership(p, f, nextMembershipId)
    \/ \E input \in {i \in CreateListInputs : ~ Has(i, "description")}, u \in UserIds :
          createTodoList_insert(p, input, u, nextTodoListId)
    \/ createShoppingList_insert(p, nextShoppingListId)
    \/ createCalendarEvent_insert(p, nextCalendarEventId)
    \/ createTask_insert(p, nextTaskId)
    \/ createShoppingItem_insert(p, nextShoppingItemId)

\* the other statements: the checks before an insert, COMMIT, the updates
IntegrityOther(p) ==
    \/ createTeam_commit(p)
    \/ \E input \in {i \in CreateListInputs : ~ Has(i, "description")}, u \in UserIds :
          createShoppingList_selectTeam(p, input, u)
    \/ createShoppingList_selectMembership(p)
    \/ \E input \in {i \in CreateCalendarEventInputs : i.title = "e2"}, u \in UserIds :
          createCalendarEvent_selectTeam(p, input, u)
    \/ \E input \in {i \in CreateTaskInputs :
                        i.title = "t1" /\ DOMAIN i \subseteq {"todo_list_id", "title", "assigned_to"}},
          u \in UserIds :
          createTask_selectTodoList(p, input, u)
    \/ createTask_selectAssignedUser(p)
    \/ \E input \in {i \in UpdateTaskInputs : Has(i, "assigned_to")} :
          updateTask_update(p, input)
    \/ \E input \in {i \in CreateShoppingItemInputs :
                        i.name = "n1" /\ i.quantity = 1 /\ ~ Has(i, "comment")},
          u \in UserIds :
          createShoppingItem_selectShoppingList(p, input, u)
    \/ \E input \in {i \in UpdateShoppingItemInputs : DOMAIN i = {"id", "is_purchased"}},
          u \in UserIds :
          updateShoppingItem_update(p, input, u)
    \/ Return(p)

NextIntegrity ==
    \/ insertsIssued < MaxInsertsInt /\ \E p \in Procs : IntegrityInsert(p)
    \/ \E p \in Procs : IntegrityOther(p)

SpecIntegrity == InitIntegrity /\ [][NextIntegrity]_vars

\* ----------------------------------------------------------------- claims
\* the step in which call p of handler op settles (returns or throws)
Settles(p, op) ==
    /\ call[p].pc # "done"
    /\ call'[p].pc = "done"
    /\ call'[p].op = op

\* a statement of call p of handler op after which the call is still in flight
InFlightStep(p, op) ==
    /\ call'[p] # call[p]
    /\ call'[p].op = op
    /\ call'[p].pc # "done"

teamExists(team_id) == \E t \in teams : t.id = team_id

\* C1: approveTeamMembership succeeds only if, when it is called, the row
\* with that id exists with status pending and the approver holds an active
\* row of the same team; on success the row is active with joined_at set,
\* and no membership changes status in any other way.
C1_ApproveOnlyPendingByActiveMember ==
    [][ /\ \A p \in Procs :
             (Settles(p, "approveTeamMembership") /\ call'[p].res = "ok") =>
                \E m \in memberships :
                   /\ m.id = call'[p].arg
                   /\ m.status = "pending"
                   /\ \E a \in memberships :
                         /\ a.team_id = m.team_id
                         /\ a.user_id = call'[p].caller
                         /\ a.status = "active"
                   /\ \E m2 \in memberships' :
                         /\ m2.id = m.id /\ m2.team_id = m.team_id /\ m2.user_id = m.user_id
                         /\ m2.status = "active"
                         /\ m2.joined_at # NULL
                         /\ call'[p].ret = {m2}
        /\ \A m \in memberships, m2 \in memberships' :
             (m.id = m2.id /\ m.status # m2.status) =>
                \E p \in Procs :
                   /\ Settles(p, "approveTeamMembership")
                   /\ call'[p].res = "ok"
                   /\ call'[p].arg = m.id
      ]_vars

\* C1 witness: an approval has succeeded and its row is stored active
C1_Witness ==
    \E p \in Procs :
       /\ call[p].pc = "done" /\ call[p].op = "approveTeamMembership"
       /\ call[p].res = "ok"
       /\ \E m \in memberships :
             /\ m.id = call[p].arg /\ m.status = "active" /\ m.joined_at # NULL
             /\ m.user_id # call[p].caller

\* C2: a successful createTeam leaves exactly one membership row of the new
\* team, the creator's, active with joined_at set; and every team, however
\* many its creator has made, has exactly one such row.
C2_CreateTeamOneCreatorRow ==
    /\ \A p \in Procs :
          (call[p].pc = "done" /\ call[p].op = "createTeam" /\ call[p].res = "ok") =>
             /\ Cardinality(call[p].ret) = 1
             /\ \A t \in call[p].ret :
                   /\ t \in teams
                   /\ t.created_by = call[p].caller
                   /\ Cardinality({m \in memberships : m.team_id = t.id}) = 1
                   /\ \A m \in memberships :
                         m.team_id = t.id =>
                            /\ m.user_id = call[p].caller
                            /\ m.status = "active"
                            /\ m.joined_at # NULL
    /\ \A t \in teams :
          Cardinality({m \in memberships :
                          /\ m.team_id = t.id /\ m.user_id = t.created_by
                          /\ m.status = "active" /\ m.joined_at # NULL}) = 1

\* C2 witness: the second successful createTeam of one user
C2_Witness ==
    \E p \in Procs :
       /\ call[p].pc = "done" /\ call[p].op = "createTeam" /\ call[p].res = "ok"
       /\ Cardinality({t \in teams : t.created_by = call[p].caller}) = 2

\* C3: in every state another call can observe, a team row exists only
\* together with its creator's active membership row; a createTeam that
\* fails leaves neither row, and before its commit it has changed neither
\* table.
C3_CreateTeamAllOrNothing ==
    /\ [](\A t \in teams :
             \E m \in memberships :
                m.team_id = t.id /\ m.user_id = t.created_by /\ m.status = "active")
    /\ [][\A p \in Procs :
             /\ (Settles(p, "createTeam") /\ call'[p].res # "ok") =>
                   (teams' = teams /\ memberships' = memberships)
             /\ InFlightStep(p, "createTeam") =>
                   (teams' = teams /\ memberships' = memberships)
         ]_vars

\* C3 witness: between the two inserts of a createTeam and its commit,
\* another call asked for the team being created and did not find it
C3_Witness ==
    \E p, q \in Procs :
       /\ p # q
       /\ call[p].pc = "ct_commit"
       /\ call[q].pc = "done" /\ call[q].op = "requestTeamMembership"
       /\ call[q].res = "Team not found"
       /\ \E t \in call[p].txTeams : t.id = call[q].arg

\* C4: requestTeamMembership for a (team, user) pair that already has a row,
\* in any status, fails with the already-has-a-membership error and leaves
\* the membership table as it was.
C4_RequestRejectsExistingPair ==
    [][\A p \in Procs :
          /\ ( /\ Settles(p, "requestTeamMembership")
               /\ \E m \in memberships :
                     m.team_id = call'[p].arg /\ m.user_id = call'[p].caller )
             => /\ call'[p].res =
                      "User already has a membership request or is already a member"
                /\ memberships' = memberships
          /\ InFlightStep(p, "requestTeamMembership") => memberships' = memberships
      ]_vars

\* C4 witness: a request was refused because of a rejected row of the pair
C4_Witness ==
    \E p \in Procs :
       /\ call[p].pc = "done" /\ call[p].op = "requestTeamMembership"
       /\ call[p].res = "User already has a membership request or is already a member"
       /\ \E m \in memberships :
             /\ m.team_id = call[p].arg /\ m.user_id = call[p].caller
             /\ m.status = "rejected"

\* C5: requestTeamMembership fails and inserts nothing when the team or the
\* user does not exist; when both exist and the pair has no row, it inserts
\* exactly one row (pending, joined_at null) for the pair and changes no
\* other row.
C5_RequestInsertsOnePendingRow ==
    [][\A p \in Procs :
          Settles(p, "requestTeamMembership") =>
             LET team_id == call'[p].arg
                 userId == call'[p].caller
                 had == {m \in memberships : m.team_id = team_id /\ m.user_id = userId}
             IN /\ ~ teamExists(team_id) =>
                      (call'[p].res = "Team not found" /\ memberships' = memberships)
                /\ (teamExists(team_id) /\ userId \notin users) =>
                      (call'[p].res = "User not found" /\ memberships' = memberships)
                /\ (teamExists(team_id) /\ userId \in users /\ had = {}) =>
                      /\ call'[p].res = "ok"
                      /\ memberships \subseteq memberships'
                      /\ Cardinality(memberships' \ memberships) = 1
                      /\ \A row \in memberships' \ memberships :
                            /\ row.team_id = team_id /\ row.user_id = userId
                            /\ row.status = "pending" /\ row.joined_at = NULL
                            /\ \A m \in memberships : m.id # row.id
                            /\ call'[p].ret = {row}
      ]_vars

\* C5 witness: a request has inserted its row next to other rows
C5_Witness ==
    \E p \in Procs :
       /\ call[p].pc = "done" /\ call[p].op = "requestTeamMembership"
       /\ call[p].res = "ok"
       /\ call[p].ret \subseteq memberships
       /\ Cardinality(memberships) >= 2

\* C6: a failing approveTeamMembership reports the error of the first
\* condition that fails (not found, not pending, approver not an active
\* member of the row's team), the three being different, and leaves every
\* membership row unchanged.
C6_ApproveFailureKeepsRows ==
    [][\A p \in Procs :
          /\ (Settles(p, "approveTeamMembership") /\ call'[p].res # "ok") =>
                LET existing == {m \in memberships : m.id = call'[p].arg} IN
                /\ memberships' = memberships
                /\ call'[p].res =
                      IF existing = {}
                      THEN "Membership request not found"
                      ELSE IF \E m \in existing : m.status # "pending"
                      THEN "Membership request is not pending"
                      ELSE "Approver must be an active member of the team"
                /\ call'[p].res = "Approver must be an active member of the team" =>
                      \A m \in existing :
                         ~ \E a \in memberships :
                              /\ a.team_id = m.team_id
                              /\ a.user_id = call'[p].caller
                              /\ a.status = "active"
          /\ InFlightStep(p, "approveTeamMembership") => memberships' = memberships
      ]_vars

\* C6 witness: an approver who is pending in the row's team and active only
\* in another team was refused
C6_Witness ==
    \E p \in Procs :
       /\ call[p].pc = "done" /\ call[p].op = "approveTeamMembership"
       /\ call[p].res = "Approver must be an active member of the team"
       /\ \E m \in memberships :
             /\ m.id = call[p].arg /\ m.status = "pending"
             /\ \E a \in memberships :
                   a.team_id = m.team_id /\ a.user_id = call[p].caller /\ a.status = "pending"
             /\ \E a \in memberships :
                   a.team_id # m.team_id /\ a.user_id = call[p].caller /\ a.status = "active"

\* C7: getPendingMemberships(T) returns exactly the rows of team T whose
\* status is pending; a successful approval leaves its row active with
\* joined_at set and out of that list; and a row that is active is never
\* listed as pending again.
C7_PendingListAndLifecycle ==
    [][ /\ \A p \in Procs :
             Settles(p, "getPendingMemberships") =>
                call'[p].ret =
                   {m \in memberships : m.team_id = call'[p].arg /\ m.status = "pending"}
        /\ \A p \in Procs :
             (Settles(p, "approveTeamMembership") /\ call'[p].res = "ok") =>
                \A m \in call'[p].ret :
                   /\ m \in memberships'
                   /\ m.id = call'[p].arg
                   /\ m.status = "active" /\ m.joined_at # NULL
                   /\ \A r \in (getPendingMemberships(m.team_id))' : r.id # m.id
        /\ \A m \in memberships :
             m.status = "active" =>
                \A t \in {r.team_id : r \in memberships'} :
                   \A r \in (getPendingMemberships(t))' : r.id # m.id
      ]_vars

\* C7 witness: after a request was approved, the team's pending list was
\* read and is empty
C7_Witness ==
    \E p \in Procs :
       /\ call[p].pc = "done" /\ call[p].op = "getPendingMemberships"
       /\ call[p].ret = {}
       /\ \E t \in teams, m \in memberships :
             /\ t.id = call[p].arg
             /\ m.team_id = t.id /\ m.user_id # t.created_by
             /\ m.status = "active" /\ m.joined_at # NULL
             /\ m # seedRow("active")

\* C8: every task has completed_at set if and only if its status is
\* completed: createTask inserts status todo with completed_at null, an
\* updateTask that carries a status sets or clears completed_at with it, and
\* an updateTask without a status changes neither.
C8_CompletedAtIffCompleted ==
    /\ [](\A t \in tasks : (t.completed_at # NULL) <=> (t.status = "completed"))
    /\ [][\A p \in Procs :
             /\ (Settles(p, "createTask") /\ call'[p].res = "ok") =>
                   \A r \in call'[p].ret :
                      r \in tasks' /\ r.status = "todo" /\ r.completed_at = NULL
             /\ (Settles(p, "updateTask") /\ call'[p].res = "ok") =>
                   \A r \in call'[p].ret :
                      /\ r \in tasks'
                      /\ \E old \in tasks :
                            /\ old.id = r.id
                            /\ IF "status" \in DOMAIN call'[p].arg
                               THEN /\ r.status = call'[p].arg.status
                                    /\ (r.status = "completed") => r.completed_at = {now}
                                    /\ (r.status # "completed") => r.completed_at = NULL
                               ELSE /\ r.status = old.status
                                    /\ r.completed_at = old.completed_at
         ]_vars

\* C8 witness: a completed task was updated later by a call without a
\* status and is still stamped with its completion time
C8_Witness ==
    \E p \in Procs :
       /\ call[p].pc = "done" /\ call[p].op = "updateTask" /\ call[p].res = "ok"
       /\ "status" \notin DOMAIN call[p].arg
       /\ \E r \in tasks :
             /\ r.id = call[p].arg.id
             /\ r.status = "completed"
             /\ r.completed_at # NULL
             /\ r.completed_at # {r.updated_at}

\* C9: every shopping item has purchased_by and purchased_at both set when
\* is_purchased is true and both null when it is false.
C9_PurchaseFieldsTogether ==
    \A i \in shoppingItems :
       /\ i.is_purchased => (i.purchased_by # NULL /\ i.purchased_at # NULL)
       /\ ~ i.is_purchased => (i.purchased_by = NULL /\ i.purchased_at = NULL)

\* C9 witness: an item was marked purchased, at a later time than it was
\* created, by a user who did not create it
C9_Witness ==
    \E p \in Procs :
       /\ call[p].pc = "done" /\ call[p].op = "updateShoppingItem" /\ call[p].res = "ok"
       /\ \E i \in call[p].ret :
             /\ i \in shoppingItems
             /\ i.is_purchased
             /\ i.purchased_by = {call[p].caller}
             /\ i.created_by # call[p].caller
             /\ i.purchased_at = {now}
             /\ now > 1

\* C10: in every state reachable through createTeam, requestTeamMembership
\* and approveTeamMembership, a membership row has joined_at set if and only
\* if its status is active.
C10_JoinedAtIffActive ==
    \A m \in memberships : (m.joined_at # NULL) <=> (m.status = "active")

\* C10 witness: the creator's row and a requested, then approved row, both
\* stamped, while a call is in flight
C10_Witness ==
    /\ \E a, b \in memberships :
          /\ a.status = "active" /\ a.joined_at # NULL
          /\ \E t \in teams : t.id = a.team_id /\ t.created_by = a.user_id
          /\ b.status = "active" /\ b.joined_at # NULL
          /\ \E t \in teams : t.id = b.team_id /\ t.created_by # b.user_id
    /\ \E p \in Procs : call[p].pc \notin {"idle", "done"}

\* the columns an update derives from another key of its input
derivedColumns(op, input) ==
    IF op = "updateTask" /\ Has(input, "status") THEN {"completed_at"}
    ELSE IF op = "updateShoppingItem" /\ Has(input, "is_purchased")
    THEN {"purchased_by", "purchased_at"}
    ELSE {}

\* call p of update handler op succeeds in this step, at time t, on table
\* rows (rowsNext after the step): the row with the input's id keeps every
\* column whose key the input lacks, but updated_at = t and the derived
\* columns; an input of the id alone changes updated_at only; every other
\* row of the table is as it was
frameLaw(p, op, t, rows, rowsNext) ==
    (Settles(p, op) /\ call'[p].res = "ok") =>
        LET input == call'[p].arg
            old == {r \in rows : r.id = input.id}
            new == {r \in rowsNext : r.id = input.id}
        IN /\ Cardinality(old) = 1
           /\ Cardinality(new) = 1
           /\ rowsNext \ new = rows \ old
           /\ \A r \in old, n \in new :
                 /\ \A k \in DOMAIN r \ (DOMAIN input \cup {"updated_at"}
                                          \cup derivedColumns(op, input)) :
                       n[k] = r[k]
                 /\ n.updated_at = t
                 /\ DOMAIN input = {"id"} => n = [r EXCEPT !.updated_at = t]

C12_PurchaseFieldsPreserved ==
    [][\A p \in Procs :
          (/\ Settles(p, "updateShoppingItem")
           /\ call'[p].res = "ok"
           /\ ~ Has(call'[p].arg, "is_purchased")) =>
              \A r \in shoppingItems :
                  (r.id = call'[p].arg.id /\ r.is_purchased) =>
                      \E n \in shoppingItems' :
                          /\ n.id = r.id
                          /\ n.is_purchased
                          /\ n.purchased_by = r.purchased_by
                          /\ n.purchased_at = r.purchased_at
                          /\ call'[p].ret = {n}
    ]_vars

\* user 1 has renamed, at a later time, an item that user 2 purchased at
\* time 1: the purchaser and the purchase time are still user 2's
C12_Witness ==
    \E p \in Procs :
        /\ call[p].pc = "done" /\ call[p].op = "updateShoppingItem"
        /\ call[p].res = "ok"
        /\ call[p].caller = 1
        /\ Has(call[p].arg, "name") /\ ~ Has(call[p].arg, "is_purchased")
        /\ now > 1
        /\ \E r \in shoppingItems :
              /\ r.id = call[p].arg.id
              /\ r.name = call[p].arg.name
              /\ r.updated_at = now
              /\ r.is_purchased
              /\ r.purchased_by = {2}
              /\ r.purchased_at = {1}

\* the nullable columns an update handler takes from its input
nullableColumns(op) ==
    IF op = "updateTask" THEN {"description", "priority", "assigned_to", "due_date"}
    ELSE IF op = "updateShoppingItem" THEN {"comment"}
    ELSE IF op = "updateCalendarEvent" THEN {"description", "location"}
    ELSE {}

\* call p of update handler op succeeds in this step: a nullable column is
\* null afterwards when the input carries null for it, and as stored when the
\* input lacks its key
nullLaw(p, op, rows, rowsNext) ==
    (Settles(p, op) /\ call'[p].res = "ok") =>
        LET input == call'[p].arg IN
        \A r \in rows, n \in rowsNext :
            (r.id = input.id /\ n.id = input.id) =>
                \A k \in nullableColumns(op) :
                    /\ (Has(input, k) /\ input[k] = NULL) => n[k] = NULL
                    /\ ~ Has(input, k) => n[k] = r[k]

\* C13: in updateTask, updateShoppingItem and updateCalendarEvent an explicit
\* null for a nullable column (task description, priority, assigned_to,
\* due_date; item comment; event description, location) stores null, and an
\* omitted key leaves the stored value.
C13_NullIsNotOmitted ==
    [][\A p \in Procs :
          /\ nullLaw(p, "updateTask", tasks, tasks')
          /\ nullLaw(p, "updateShoppingItem", shoppingItems, shoppingItems')
          /\ nullLaw(p, "updateCalendarEvent", calendarEvents, calendarEvents')
    ]_vars

\* an updateCalendarEvent carrying location: null has succeeded on an event
\* with a description: the location is null, the description, whose key was
\* omitted, is still there
C13_Witness ==
    \E p \in Procs :
        /\ call[p].pc = "done" /\ call[p].op = "updateCalendarEvent"
        /\ call[p].res = "ok"
        /\ Has(call[p].arg, "location") /\ call[p].arg.location = NULL
        /\ now > 1
        /\ \E r \in calendarEvents :
              /\ r.id = call[p].arg.id
              /\ r.location = NULL
              /\ r.description = {"d"}
              /\ r.updated_at = now
              /\ call[p].ret = {r}

\* call p of update handler op settles in this step on an id that matches no
\* row of the table: it fails with the not-found error of that kind naming
\* the id, returns nothing and leaves the store as it was
notFoundLaw(p, op, kind, rows) ==
    (/\ Settles(p, op)
     /\ ~ \E r \in rows : r.id = call'[p].arg.id) =>
        /\ call'[p].res = kind \o " with id " \o ToString(call'[p].arg.id) \o " not found"
        /\ call'[p].ret = {}
        /\ UNCHANGED store

\* C14: updateTask, updateShoppingItem, updateCalendarEvent and updateFeature
\* called with an id that matches no row fail with a not-found error naming
\* the id and leave the store unchanged.
C14_UpdateNotFound ==
    [][\A p \in Procs :
          /\ notFoundLaw(p, "updateTask", "Task", tasks)
          /\ notFoundLaw(p, "updateShoppingItem", "Shopping item", shoppingItems)
          /\ notFoundLaw(p, "updateCalendarEvent", "Calendar event", calendarEvents)
          /\ notFoundLaw(p, "updateFeature", "Feature", features)
    ]_vars

\* updateFeature has been called with id 3 while features 1 and 2 exist: the
\* call failed naming 3, and both rows are as seeded
C14_Witness ==
    \E p \in Procs :
        /\ call[p].pc = "done" /\ call[p].op = "updateFeature"
        /\ call[p].arg.id = 3
        /\ Has(call[p].arg, "is_enabled_free")
        /\ call[p].res = "Feature with id 3 not found"
        /\ features = {featureRow(1, "f1"), featureRow(2, "f2")}

\* the teams user u created or holds an active membership row of
teamsOfUser(u) ==
    {t \in teams :
        \/ t.created_by = u
        \/ \E m \in memberships :
              m.team_id = t.id /\ m.user_id = u /\ m.status = "active"}

C16_CalendarRangeAndOrder ==
    \A p \in Procs :
        (call[p].pc = "done" /\ call[p].op = "getTeamCalendarEvents") =>
            LET input == call[p].arg
                results == call[p].ret
            IN /\ call[p].res = "ok"
               /\ {results[i] : i \in DOMAIN results} =
                     {e \in calendarEvents :
                         /\ e.team_id = input.team_id
                         /\ Has(input, "start_date") => e.start_time >= input.start_date
                         /\ Has(input, "end_date") => e.end_time <= input.end_date}
               /\ \A i, j \in DOMAIN results :
                     /\ results[i] = results[j] => i = j
                     /\ i < j => results[i].start_time >= results[j].start_time

\* a listing with both bounds has returned the two events of the team, the
\* later start first, one starting on start_date and one ending on end_date,
\* and not the event of the other team
C16_Witness ==
    \E p \in Procs :
        /\ call[p].pc = "done" /\ call[p].op = "getTeamCalendarEvents"
        /\ Has(call[p].arg, "start_date") /\ Has(call[p].arg, "end_date")
        /\ Len(call[p].ret) = 2
        /\ call[p].ret[1].start_time > call[p].ret[2].start_time
        /\ call[p].ret[2].start_time = call[p].arg.start_date
        /\ \E i \in DOMAIN call[p].ret : call[p].ret[i].end_time = call[p].arg.end_date
        /\ \E e \in calendarEvents : e.team_id # call[p].arg.team_id

\* user u holds an active membership row of team team_id
isActiveMember(team_id, u) ==
    \E m \in memberships : m.team_id = team_id /\ m.user_id = u /\ m.status = "active"

\* C17: createShoppingList succeeds only if the team exists and the caller
\* holds an active membership row of it, and then inserts one list of that
\* team created by the caller; a caller with no row, or with a pending or
\* rejected row, gets an error and no shopping list row is inserted.
C17_ShoppingListNeedsActiveMember ==
    [][\A p \in Procs :
          Settles(p, "createShoppingList") =>
              LET input == call'[p].arg
                  caller == call'[p].caller
              IN /\ call'[p].res = "ok" =>
                       /\ teamExists(input.team_id)
                       /\ isActiveMember(input.team_id, caller)
                       /\ \E row \in shoppingLists' \ shoppingLists :
                             /\ shoppingLists' = shoppingLists \cup {row}
                             /\ row.team_id = input.team_id
                             /\ row.created_by = caller
                             /\ call'[p].ret = {row}
                 /\ ~ (teamExists(input.team_id) /\ isActiveMember(input.team_id, caller)) =>
                       /\ call'[p].res # "ok"
                       /\ shoppingLists' = shoppingLists
    ]_vars

\* user 1 has created a shopping list of team 1, and the call of user 2,
\* whose row in team 1 is pending or rejected, has failed without a row
C17_Witness ==
    \E p \in Procs :
        /\ call[p].pc = "done" /\ call[p].op = "createShoppingList"
        /\ call[p].caller = 2 /\ call[p].arg.team_id = 1
        /\ call[p].res = "User 2 is not an active member of team 1"
        /\ \E m \in memberships :
              m.team_id = 1 /\ m.user_id = 2 /\ m.status \in {"pending", "rejected"}
        /\ Cardinality(shoppingLists) = 1
        /\ \A l \in shoppingLists : l.team_id = 1 /\ l.created_by = 1

C19_OnlyPendingToActive ==
    [][/\ \A m \in memberships :
             m.status \in {"active", "rejected"} =>
                 \E n \in memberships' : n.id = m.id /\ n.status = m.status
       /\ \A m \in memberships, n \in memberships' :
             (n.id = m.id /\ n.status # m.status) =>
                 (m.status = "pending" /\ n.status = "active")
       /\ \A n \in memberships' :
             n.status = "rejected" => n \in memberships
    ]_vars

\* an approval of the rejected row of user 2 has failed and the row is still
\* rejected, while the row user 3 requested has been approved
C19_Witness ==
    \E p \in Procs :
        /\ call[p].pc = "done" /\ call[p].op = "approveTeamMembership"
        /\ call[p].arg = 2
        /\ call[p].res = "Membership request is not pending"
        /\ \E m \in memberships :
              m.id = 2 /\ m.user_id = 2 /\ m.status = "rejected" /\ m.joined_at = NULL
        /\ \E m \in memberships :
              m.user_id = 3 /\ m.team_id = 1 /\ m.status = "active"

\* C20: createTask fails with a not-found error and inserts no task when
\* todo_list_id names no to-do list, and also when a supplied non-null
\* assigned_to names no user, whatever its value; otherwise (for a caller who
\* is a user) it inserts one task with status 'todo', completed_at null and
\* created_by the caller.
C20_CreateTaskChecksReferences ==
    [][\A p \in Procs :
          Settles(p, "createTask") =>
              LET input == call'[p].arg
                  caller == call'[p].caller
                  listExists == \E l \in todoLists : l.id = input.todo_list_id
                  badAssignee ==
                      /\ Has(input, "assigned_to")
                      /\ \E u \in input.assigned_to : u \notin users
              IN /\ ~ listExists =>
                       /\ call'[p].res =
                             "Todo list with ID " \o ToString(input.todo_list_id)
                                                  \o " not found"
                       /\ tasks' = tasks
                 /\ (listExists /\ badAssignee) =>
                       /\ \E u \in input.assigned_to :
                             call'[p].res = "User with ID " \o ToString(u) \o " not found"
                       /\ tasks' = tasks
                 /\ (listExists /\ ~ badAssignee /\ caller \in users) =>
                       /\ call'[p].res = "ok"
                       /\ \E row \in tasks' \ tasks :
                             /\ tasks' = tasks \cup {row}
                             /\ row.status = "todo"
                             /\ row.completed_at = NULL
                             /\ row.created_by = caller
                             /\ call'[p].ret = {row}
    ]_vars

\* C21: no two user rows share an email; a createUser whose email a row
\* already holds fails with the unique-constraint error and leaves the users
\* table as it was.
C21_EmailUnique ==
    /\ [](\A a, b \in userRows : a.email = b.email => a = b)
    /\ [][\A p \in Procs :
            (Settles(p, "createUser")
             /\ \E r \in userRows : r.email = call'[p].arg.email) =>
                /\ call'[p].res = ErrUniqueEmail
                /\ call'[p].ret = {}
                /\ UNCHANGED <<users, userRows>>
       ]_vars

\* a createUser for test@example.com has failed on the unique constraint
\* while another call created the row holding that address
C21_Witness ==
    \E p, q \in Procs :
        /\ call[p].pc = "done" /\ call[p].op = "createUser"
        /\ call[p].res = ErrUniqueEmail
        /\ call[p].arg.email = "test@example.com"
        /\ call[q].pc = "done" /\ call[q].op = "createUser" /\ call[q].res = "ok"
        /\ call[q].arg.email = "test@example.com"
        /\ Cardinality(userRows) = 1

\* C22: a createUser that succeeds returns a row with a positive id, the
\* input's email and name, the input's tier and status or free / active where
\* left out, and created_at equal to updated_at; the id is one no earlier
\* row holds, and the row is stored.
C22_CreateUserResult ==
    [][\A p \in Procs :
          (Settles(p, "createUser") /\ call'[p].res = "ok") =>
             \E r \in call'[p].ret :
                /\ call'[p].ret = {r}
                /\ r.id > 0
                /\ r.id \notin users
                /\ \A o \in userRows : o.id # r.id
                /\ r.email = call'[p].arg.email
                /\ r.name = call'[p].arg.name
                /\ r.tier = (IF Has(call'[p].arg, "tier") THEN call'[p].arg.tier ELSE "free")
                /\ r.status = (IF Has(call'[p].arg, "status")
                               THEN call'[p].arg.status ELSE "active")
                /\ r.created_at = r.updated_at
                /\ r.created_at = now
                /\ userRows' = userRows \cup {r}
    ]_vars

\* two createUser calls have succeeded at different times, one leaving tier
\* and status out, and returned different ids
C22_Witness ==
    \E p, q \in Procs :
        /\ call[p].pc = "done" /\ call[p].op = "createUser" /\ call[p].res = "ok"
        /\ call[q].pc = "done" /\ call[q].op = "createUser" /\ call[q].res = "ok"
        /\ ~ Has(call[p].arg, "tier") /\ ~ Has(call[p].arg, "status")
        /\ \E a \in call[p].ret, b \in call[q].ret :
              /\ a.id # b.id
              /\ a.tier = "free" /\ a.status = "active"
              /\ a.created_at = 1 /\ b.created_at = 2 /\ b.updated_at = 2

\* the membership rows of one (team, user) pair
rowsOfPair(team_id, user_id) ==
    {m \in memberships : m.team_id = team_id /\ m.user_id = user_id}

\* C23: when every call runs to completion before the next begins, no
\* (team_id, user_id) pair ever has more than one membership row, whatever
\* createTeam, requestTeamMembership and approveTeamMembership calls are made.
C23_SingleMembershipSequential ==
    \A a, b \in memberships :
        (a.team_id = b.team_id /\ a.user_id = b.user_id) => a = b

\* from the empty store: user 2 created team 1, user 1 asked to join it, and
\* a second request of user 1 for team 1 was refused; the pair has one row
C23_Witness ==
    /\ teams = {[id |-> 1, created_by |-> 2]}
    /\ call[SeqProc].pc = "done" /\ call[SeqProc].op = "requestTeamMembership"
    /\ call[SeqProc].arg = 1 /\ call[SeqProc].caller = 1
    /\ call[SeqProc].res = ErrAlreadyMember
    /\ \E m \in rowsOfPair(1, 1) : m.status = "pending" /\ rowsOfPair(1, 1) = {m}
    /\ Cardinality(memberships) = 2

\* C24: when requestTeamMembership calls interleave between their store
\* statements, no (team, user) pair has more than one membership row and no
\* two calls for the same pair have both succeeded.
C24_SingleMembershipConcurrent ==
    /\ \A t \in TeamIds, u \in UserIds : Cardinality(rowsOfPair(t, u)) <= 1
    /\ \A p, q \in Procs :
          (/\ p # q
           /\ call[p].pc = "done" /\ call[p].op = "requestTeamMembership"
           /\ call[q].pc = "done" /\ call[q].op = "requestTeamMembership"
           /\ call[p].arg = call[q].arg /\ call[p].caller = call[q].caller) =>
              ~ (call[p].res = "ok" /\ call[q].res = "ok")

\* C25: through the router, from a store without teams and memberships, in
\* every state of every interleaving: no requestTeamMembership has succeeded,
\* no membership row is pending, and no approveTeamMembership has succeeded;
\* every team is user 1's and every membership row is user 1's active one.
C25_RouterNeverRequestsNorApproves ==
    (teams = {} /\ memberships = {}) =>
        [](/\ \A p \in Procs :
                 (call[p].pc = "done"
                  /\ call[p].op \in {"requestTeamMembership", "approveTeamMembership"}) =>
                     call[p].res # "ok"
           /\ \A m \in memberships :
                 m.status = "active" /\ m.user_id = routerUserId
           /\ \A t \in teams : t.created_by = routerUserId)

\* through the router user 1 created team 1; with the team and its creator
\* row in the store, one client's request to join team 1 was refused as
\* already a member while the other's approval of row 1 failed as not pending
C25_Witness ==
    /\ teams = {[id |-> 1, created_by |-> routerUserId]}
    /\ memberships = {creatorRow(1, 1, routerUserId, 1)}
    /\ \E p, q \in Procs :
          /\ call[p].pc = "done" /\ call[p].op = "requestTeamMembership"
          /\ call[p].arg = 1 /\ call[p].res = ErrAlreadyMember
          /\ call[q].pc = "done" /\ call[q].op = "approveTeamMembership"
          /\ call[q].arg = 1 /\ call[q].res = ErrNotPending

\* C26: an active membership row stays active and unchanged in every later
\* state, and an approveTeamMembership call for a pending row by any user
\* holding an active row of the row's team succeeds and activates the row,
\* whether or not that user created the team: a user whose own membership
\* was approved can approve the others from then on.
C26_ApprovedMemberCanApprove ==
    [][ /\ \A m \in memberships : m.status = "active" => m \in memberships'
        /\ \A p \in Procs :
              (/\ Settles(p, "approveTeamMembership")
               /\ \E m \in memberships :
                     /\ m.id = call'[p].arg /\ m.status = "pending"
                     /\ isActiveMember(m.team_id, call'[p].caller)) =>
                 /\ call'[p].res = "ok"
                 /\ \E m \in memberships' :
                       m.id = call'[p].arg /\ m.status = "active"
    ]_vars

\* user 1 created team 1 and users 2 and 3 asked to join; user 2's row was
\* approved, and user 2, who did not create the team, has approved user 3's
C26_Witness ==
    /\ teams = {[id |-> 1, created_by |-> 1]}
    /\ nextTeamId = 2
    /\ call[SeqProc].pc = "done" /\ call[SeqProc].op = "approveTeamMembership"
    /\ call[SeqProc].caller = 2 /\ call[SeqProc].arg = 3 /\ call[SeqProc].res = "ok"
    /\ \E a, b \in memberships :
          /\ a.id = 2 /\ a.user_id = 2 /\ a.team_id = 1 /\ a.status = "active"
          /\ b.id = 3 /\ b.user_id = 3 /\ b.team_id = 1 /\ b.status = "active"

\* C27: when approveTeamMembership calls interleave between their store
\* statements, no two calls for the same membership have both returned
\* success, and a joined_at that has been written is never written again.
C27_ApproveOnce ==
    [][ /\ \A p, q \in Procs :
              (/\ p # q
               /\ call'[p].pc = "done" /\ call'[p].op = "approveTeamMembership"
               /\ call'[q].pc = "done" /\ call'[q].op = "approveTeamMembership"
               /\ call'[p].arg = call'[q].arg
               /\ call'[p].res = "ok") =>
                  call'[q].res # "ok"
        /\ \A m \in memberships :
              m.joined_at # NULL =>
                 \A n \in memberships' : n.id = m.id => n.joined_at = m.joined_at
    ]_vars

\* every referencing column of every row names a row of the referenced table
referencesHold ==
    /\ \A r \in teams : r.created_by \in users
    /\ \A r \in memberships : teamExists(r.team_id) /\ r.user_id \in users
    /\ \A r \in todoLists : teamExists(r.team_id) /\ r.created_by \in users
    /\ \A r \in tasks :
          /\ \E l \in todoLists : l.id = r.todo_list_id
          /\ r.created_by \in users
          /\ \A u \in r.assigned_to : u \in users
    /\ \A r \in shoppingLists : teamExists(r.team_id) /\ r.created_by \in users
    /\ \A r \in shoppingItems :
          /\ \E l \in shoppingLists : l.id = r.shopping_list_id
          /\ r.created_by \in users
          /\ \A u \in r.purchased_by : u \in users
    /\ \A r \in calendarEvents : teamExists(r.team_id) /\ r.created_by \in users

\* a row the call's insert would reference is not in the store
parentMissing(c) ==
    \/ c.caller \notin users
    \/ /\ c.op \in {"createTodoList", "createShoppingList", "createCalendarEvent"}
       /\ ~ teamExists(c.arg.team_id)
    \/ /\ c.op = "createTask"
       /\ \/ ~ \E l \in todoLists : l.id = c.arg.todo_list_id
          \/ \E u \in NumberOrNull(c.arg, "assigned_to") : u \notin users
    \/ /\ c.op = "createShoppingItem"
       /\ ~ \E l \in shoppingLists : l.id = c.arg.shopping_list_id

\* C28: in every state, also between the statements of interleaved calls,
\* every task names an existing to-do list, every list, event and membership
\* an existing team, every item an existing shopping list, and every
\* created_by, assigned_to and purchased_by that is set an existing user; a
\* create call that settles while a row it references is missing fails and
\* no table gains or loses a row.
C28_ReferentialIntegrity ==
    /\ []referencesHold
    /\ [][\A p \in Procs :
            (/\ \E op \in {"createTeam", "createTodoList", "createShoppingList",
                           "createCalendarEvent", "createTask", "createShoppingItem"} :
                   Settles(p, op)
             /\ parentMissing(call'[p])) =>
                /\ call'[p].res # "ok"
                /\ UNCHANGED <<users, teams, memberships, todoLists, tasks,
                               shoppingLists, shoppingItems, calendarEvents>>
       ]_vars

\* while a createTeam holds team 2 in its open transaction, another call's
\* createTodoList for team 2 was rejected by the foreign key and the to-do
\* lists are as before
C28_Witness ==
    \E p, q \in Procs :
        /\ call[p].pc = "ct_membership" /\ call[p].txTeams = {[id |-> 2, created_by |-> 1]}
        /\ call[q].pc = "done" /\ call[q].op = "createTodoList"
        /\ call[q].arg.team_id = 2 /\ call[q].caller = 1
        /\ call[q].res = ErrForeignKey
        /\ todoLists = {newTodoList(1, [team_id |-> 1, name |-> "n1"], 1)}
        /\ referencesHold

\* C29: createTodoList is one statement, the insert: a call naming a team
\* that does not exist, or made by a caller without a user row, settles in
\* that statement with the store's foreign-key error, returns nothing and
\* leaves the to-do lists as they were.
C29_CreateTodoListForeignKey ==
    [][\A p \in Procs :
          Settles(p, "createTodoList") =>
             /\ call[p].pc = "idle"
             /\ (~ teamExists(call'[p].arg.team_id) \/ call'[p].caller \notin users) =>
                   /\ call'[p].res = ErrForeignKey
                   /\ call'[p].ret = {}
                   /\ todoLists' = todoLists
    ]_vars

\* createTodoList of user 1 for team 2, which does not exist, has failed on
\* the foreign key and no to-do list exists
C29_Witness ==
    /\ ~ teamExists(2)
    /\ call[SeqProc].pc = "done" /\ call[SeqProc].op = "createTodoList"
    /\ call[SeqProc].arg.team_id = 2 /\ call[SeqProc].caller = 1
    /\ call[SeqProc].res = ErrForeignKey
    /\ todoLists = {}

\* C30: approveTeamMembership checks existence, then the pending status,
\* then the approver: a call for an id that matches no row fails with the
\* not-found error whoever the approver is; a call for a row that is not
\* pending fails with the not-pending error even when the approver holds no
\* active row of the team; only a call for a pending row can fail with the
\* authorization error.
C30_ApproveGuardOrder ==
    [][\A p \in Procs :
          Settles(p, "approveTeamMembership") =>
             LET existing == {m \in memberships : m.id = call'[p].arg} IN
             /\ existing = {} => call'[p].res = ErrNotFound
             /\ (\E m \in existing : m.status # "pending") => call'[p].res = ErrNotPending
             /\ (\E m \in existing :
                    m.status = "pending" /\ ~ isActiveMember(m.team_id, call'[p].caller)) =>
                   call'[p].res = ErrNotActiveMember
    ]_vars

\* user 3, who holds no row of team 1, asked to approve the rejected row 2 of
\* team 1: the call failed as not pending, and the row is as it was
C30_Witness ==
    /\ call[SeqProc].pc = "done" /\ call[SeqProc].op = "approveTeamMembership"
    /\ call[SeqProc].caller = 3 /\ call[SeqProc].arg = 2
    /\ call[SeqProc].res = ErrNotPending
    /\ seedRow("rejected") \in memberships
    /\ ~ isActiveMember(1, 3)

====
